---- MODULE Spec2Model ----
(***************************************************************************)
(* Rating pipelines of db_update: the AdjEM team-rating solver             *)
(* (nba_ratings_update) and the VORP refresh (vorp_update), with the       *)
(* database tables they upsert into.                                       *)
(*                                                                         *)
(* Numbers the program holds as floats are modelled as exact rationals     *)
(* <<n, d>> in lowest terms with d > 0; NaN is <<0, 0>>.                    *)
(***************************************************************************)
EXTENDS Integers, Sequences, FiniteSets, TLC

(* ---------------------------------------------------------------------- *)
(* Rational arithmetic                                                     *)
(* ---------------------------------------------------------------------- *)

Abs(n) == IF n < 0 THEN 0 - n ELSE n

RECURSIVE Gcd(_, _)
Gcd(a, b) == IF b = 0 THEN a ELSE Gcd(b, a % b)

NaN == <<0, 0>>

IsNaN(x) == x[2] = 0

Rat(n, d) ==
    IF d = 0 THEN NaN
    ELSE LET rat_gcd == Gcd(Abs(n), Abs(d))
             rat_sgn == IF d < 0 THEN 0 - 1 ELSE 1
         IN  <<(rat_sgn * n) \div rat_gcd, (rat_sgn * d) \div rat_gcd>>

Num(n) == <<n, 1>>

Zero == Num(0)

One == Num(1)

Add(x, y) == IF IsNaN(x) \/ IsNaN(y) THEN NaN
             ELSE Rat(x[1] * y[2] + y[1] * x[2], x[2] * y[2])

Sub(x, y) == IF IsNaN(x) \/ IsNaN(y) THEN NaN
             ELSE Rat(x[1] * y[2] - y[1] * x[2], x[2] * y[2])

Mul(x, y) == IF IsNaN(x) \/ IsNaN(y) THEN NaN
             ELSE Rat(x[1] * y[1], x[2] * y[2])

\* numpy division: 0/0 is NaN.  The program never divides a non-zero number by
\* zero (every other divisor is floored or guarded), so only 0/0 is modelled.
Div(x, y) == IF IsNaN(x) \/ IsNaN(y) THEN NaN
             ELSE Rat(x[1] * y[2], x[2] * y[1])

\* Comparisons are false when an operand is NaN, as in IEEE arithmetic.
Lt(x, y) == ~IsNaN(x) /\ ~IsNaN(y) /\ x[1] * y[2] < y[1] * x[2]

Le(x, y) == ~IsNaN(x) /\ ~IsNaN(y) /\ x[1] * y[2] <= y[1] * x[2]

Gt(x, y) == Lt(y, x)

\* Python's max(a, b): a unless b > a.
Max(x, y) == IF Gt(y, x) THEN y ELSE x

\* pandas Series.clip: NaN stays NaN.
ClipLower(x, lo) == IF Lt(x, lo) THEN lo ELSE x

ClipUpper(x, hi) == IF Gt(x, hi) THEN hi ELSE x

\* round(x, p): to the nearest multiple of 1/scale, ties to even; NaN stays NaN.
RoundTo(x, scale) ==
    IF IsNaN(x) THEN NaN
    ELSE LET rnd_m == x[1] * scale
             rnd_q == rnd_m \div x[2]
             rnd_r == rnd_m - rnd_q * x[2]
             rnd_k == IF 2 * rnd_r < x[2] THEN rnd_q
                      ELSE IF 2 * rnd_r > x[2] THEN rnd_q + 1
                      ELSE IF rnd_q % 2 = 0 THEN rnd_q ELSE rnd_q + 1
         IN  Rat(rnd_k, scale)

Round2(x) == RoundTo(x, 100)

RECURSIVE SumRat(_)
SumRat(s) == IF s = <<>> THEN Zero ELSE Add(Head(s), SumRat(Tail(s)))

\* np.dot(vals, weights)
RECURSIVE Dot(_, _)
Dot(v, w) == IF v = <<>> THEN Zero
             ELSE Add(Mul(Head(v), Head(w)), Dot(Tail(v), Tail(w)))

(* ---------------------------------------------------------------------- *)
(* Sequence helpers                                                        *)
(* ---------------------------------------------------------------------- *)

MapSeq(s, F(_)) == [i \in 1..Len(s) |-> F(s[i])]

Range(s) == {s[i] : i \in 1..Len(s)}

\* The function f with every value computed (TLC builds [x \in S |-> e] lazily;
\* this makes it an explicit table, as a Python dict is).
Table(f) == f @@ <<>>

\* All sequences over S of length 0..n.
SeqsUpTo(S, n) == UNION {[1..k -> S] : k \in 0..n}

(* ---------------------------------------------------------------------- *)
(* nba_ratings_update/ratings.py                                           *)
(*                                                                         *)
(* A game row is [home_team, away_team, home_score, away_score,            *)
(* game_date]; dates are day numbers.  prediction_date is <<>> for None    *)
(* and <<day>> for a date.                                                 *)
(* ---------------------------------------------------------------------- *)

half_life_days == 30

weight_floor == Rat(1, 10)

iterations == 5

min_games == 5

min_games_regression == Rat(1, 2)

LEAGUE_AVG_EFFICIENCY == Num(110)

RECURSIVE Pow2(_)
Pow2(k) == IF k = 0 THEN 1 ELSE 2 * Pow2(k - 1)

\* math.pow(0.5, days / half_life).  The value is rational only when half_life
\* divides days; the model's dates are whole half-lives apart.
HalfPow(days, half_life) == Rat(1, Pow2(days \div half_life))

\* the weight with the half_life argument ignored
_game_weight_default_half_life(game_date, prediction_date, half_life, floor) ==
    LET gw_days_d == prediction_date - game_date
    IN  IF gw_days_d < 0 THEN Zero
        ELSE Max(HalfPow(gw_days_d, half_life_days), floor)

\* the weight without the floor
_game_weight_unfloored(game_date, prediction_date, half_life, floor) ==
    LET gw_days_u == prediction_date - game_date
    IN  IF gw_days_u < 0 THEN Zero
        ELSE HalfPow(gw_days_u, half_life)

\* lines 39-43; dates are day numbers, so both dates parse
_game_weight(game_date, prediction_date, half_life, floor) ==
    LET days == prediction_date - game_date
    IN  IF days < 0 THEN Zero
        ELSE Max(HalfPow(days, half_life), floor)

possessions(g) == Div(Num(g.home_score + g.away_score), Num(2))

home_off_eff(g) == Mul(Div(Num(g.home_score), possessions(g)), Num(100))

away_off_eff(g) == Mul(Div(Num(g.away_score), possessions(g)), Num(100))

home_def_eff(g) == Mul(Div(Num(g.away_score), possessions(g)), Num(100))

away_def_eff(g) == Mul(Div(Num(g.home_score), possessions(g)), Num(100))

weight(g, prediction_date) ==
    IF prediction_date # <<>>
    THEN _game_weight(g.game_date, prediction_date[1], half_life_days, weight_floor)
    ELSE One

\* np.mean
Mean(vals) == Div(SumRat(vals), Num(Len(vals)))

_weighted_mean(vals, weights) ==
    LET tw == SumRat(weights)
    IN  IF tw = Zero
        THEN (IF Len(vals) > 0 THEN Mean(vals) ELSE Zero)
        ELSE Div(Dot(vals, weights), tw)

\* sorted(set(home teams) | set(away teams)), as a sequence in name order.
TeamOrder == <<"A", "B", "C", "D", "E">>

SortedTeams(df) ==
    SelectSeq(TeamOrder,
              LAMBDA t : \E i \in 1..Len(df) :
                            df[i].home_team = t \/ df[i].away_team = t)

InitialRating(df, prediction_date, team) ==
    LET hm == SelectSeq(df, LAMBDA g : g.home_team = team)
        am == SelectSeq(df, LAMBDA g : g.away_team = team)
        off_vals == MapSeq(hm, home_off_eff) \o MapSeq(am, away_off_eff)
        off_w == MapSeq(hm, LAMBDA g : weight(g, prediction_date))
                 \o MapSeq(am, LAMBDA g : weight(g, prediction_date))
        def_vals == MapSeq(hm, home_def_eff) \o MapSeq(am, away_def_eff)
        raw_o == IF Len(off_vals) > 0 THEN _weighted_mean(off_vals, off_w)
                 ELSE LEAGUE_AVG_EFFICIENCY
        raw_d == IF Len(def_vals) > 0 THEN _weighted_mean(def_vals, off_w)
                 ELSE LEAGUE_AVG_EFFICIENCY
    IN  [adj_o |-> raw_o, adj_d |-> raw_d, raw_o |-> raw_o, raw_d |-> raw_d,
         games |-> Len(off_vals)]

InitialRatings(df, prediction_date) ==
    Table([t \in Range(SortedTeams(df)) |-> InitialRating(df, prediction_date, t)])

ZeroAccumulators(teams) ==
    [ao_wsum |-> Table([t \in teams |-> Zero]),
     ad_wsum |-> Table([t \in teams |-> Zero]),
     wt      |-> Table([t \in teams |-> Zero])]

\* The body of the loop over df.iterrows(): one game added to the accumulators.
AccumulateGame(acc, g, w, rt) ==
    LET h == g.home_team
        a == g.away_team
        h_exp == Add(LEAGUE_AVG_EFFICIENCY, Sub(rt[a].adj_d, LEAGUE_AVG_EFFICIENCY))
        a_exp == Add(LEAGUE_AVG_EFFICIENCY, Sub(rt[h].adj_d, LEAGUE_AVG_EFFICIENCY))
        h_adj == Add(Sub(home_off_eff(g), h_exp), LEAGUE_AVG_EFFICIENCY)
        a_adj == Add(Sub(away_off_eff(g), a_exp), LEAGUE_AVG_EFFICIENCY)
        ao1 == [acc.ao_wsum EXCEPT ![h] = Add(@, Mul(h_adj, w))]
        ao2 == [ao1 EXCEPT ![a] = Add(@, Mul(a_adj, w))]
        ad1 == [acc.ad_wsum EXCEPT ![h] = Add(@, Mul(a_adj, w))]
        ad2 == [ad1 EXCEPT ![a] = Add(@, Mul(h_adj, w))]
        wt1 == [acc.wt EXCEPT ![h] = Add(@, w)]
        wt2 == [wt1 EXCEPT ![a] = Add(@, w)]
    IN  [ao_wsum |-> ao2, ad_wsum |-> ad2, wt |-> wt2]

RECURSIVE AccumulateGames(_, _, _, _)
AccumulateGames(acc, df, prediction_date, rt) ==
    IF df = <<>> THEN acc
    ELSE AccumulateGames(
             AccumulateGame(acc, Head(df), weight(Head(df), prediction_date), rt),
             Tail(df), prediction_date, rt)

\* After the pass: every team with positive weight takes its weighted means.
ReplaceRatings(rt, acc) ==
    Table([t \in DOMAIN rt |->
        IF Gt(acc.wt[t], Zero)
        THEN [rt[t] EXCEPT !.adj_o = Div(acc.ao_wsum[t], acc.wt[t]),
                           !.adj_d = Div(acc.ad_wsum[t], acc.wt[t])]
        ELSE rt[t]])

\* a pass that replaces the ratings after every game instead of after the pass
RECURSIVE AccumulateInPlace(_, _, _, _)
AccumulateInPlace(acc, df, prediction_date, rt) ==
    IF df = <<>> THEN rt
    ELSE LET ip_acc == AccumulateGame(acc, Head(df),
                                      weight(Head(df), prediction_date), rt)
         IN  AccumulateInPlace(ip_acc, Tail(df), prediction_date,
                               ReplaceRatings(rt, ip_acc))

IterateRound_in_place(rt, df, prediction_date) ==
    AccumulateInPlace(ZeroAccumulators(DOMAIN rt), df, prediction_date, rt)

\* One round of the iteration.
IterateRound(rt, df, prediction_date) ==
    ReplaceRatings(rt,
        AccumulateGames(ZeroAccumulators(DOMAIN rt), df, prediction_date, rt))

RECURSIVE IterateRounds(_, _, _, _)
IterateRounds(rt, df, prediction_date, n) ==
    IF n = 0 THEN rt
    ELSE IterateRounds(IterateRound(rt, df, prediction_date), df, prediction_date, n - 1)

\* the blend applied to every team, whatever its number of games
Shrinkage_every_team(rt) ==
    Table([t \in DOMAIN rt |->
        LET n_games_e == rt[t].games
            blend_e == Mul(min_games_regression, Rat(n_games_e, min_games))
        IN  [rt[t] EXCEPT
               !.adj_o = Add(Mul(blend_e, @),
                             Mul(Sub(One, blend_e), LEAGUE_AVG_EFFICIENCY)),
               !.adj_d = Add(Mul(blend_e, @),
                             Mul(Sub(One, blend_e), LEAGUE_AVG_EFFICIENCY))]])

\* lines 122-129
Shrinkage(rt) ==
    Table([t \in DOMAIN rt |->
        LET n_games == rt[t].games
        IN  IF 0 < n_games /\ n_games < min_games
            THEN LET blend == Mul(min_games_regression, Rat(n_games, min_games))
                 IN  [rt[t] EXCEPT
                        !.adj_o = Add(Mul(blend, @),
                                      Mul(Sub(One, blend), LEAGUE_AVG_EFFICIENCY)),
                        !.adj_d = Add(Mul(blend, @),
                                      Mul(Sub(One, blend), LEAGUE_AVG_EFFICIENCY))]
            ELSE rt[t]])

\* the row with the net rating taken from the rounded ratings
ResultRow_from_rounded(t, r) ==
    [team |-> t,
     adj_em |-> Sub(Round2(r.adj_o), Round2(r.adj_d)),
     adj_o |-> Round2(r.adj_o),
     adj_d |-> Round2(r.adj_d),
     games |-> r.games]

\* lines 132-139

ResultRow(t, r) ==
    [team |-> t,
     adj_em |-> Round2(Sub(r.adj_o, r.adj_d)),
     adj_o |-> Round2(r.adj_o),
     adj_d |-> Round2(r.adj_d),
     games |-> r.games]

\* sorted(results, key=adj_em, reverse=True) as CPython's list.sort computes it
\* for a list of fewer than 64 rows: the list is reversed, its initial run is
\* found, the remaining rows are placed by binary insertion, and the list is
\* reversed again.  The only comparison is key < key, false when a key is NaN.
Reverse(s) == [i \in 1..Len(s) |-> s[Len(s) + 1 - i]]

KeyLt(x, y) == Lt(x.adj_em, y.adj_em)

RECURSIVE AscendingRun(_, _)
AscendingRun(s, n) ==
    IF n < Len(s) /\ ~KeyLt(s[n + 1], s[n]) THEN AscendingRun(s, n + 1) ELSE n

RECURSIVE DescendingRun(_, _)
DescendingRun(s, n) ==
    IF n < Len(s) /\ KeyLt(s[n + 1], s[n]) THEN DescendingRun(s, n + 1) ELSE n

\* count_run: the length of the initial run, a strictly descending run
\* reversed in place
CountRun(s) ==
    IF Len(s) <= 1 THEN [n |-> Len(s), list |-> s]
    ELSE IF KeyLt(s[2], s[1])
         THEN LET cr_n == DescendingRun(s, 2)
              IN  [n |-> cr_n,
                   list |-> Reverse(SubSeq(s, 1, cr_n)) \o SubSeq(s, cr_n + 1, Len(s))]
         ELSE [n |-> AscendingRun(s, 2), list |-> s]

\* binarysort: the place of pivot among s[l..r-1]
RECURSIVE BinarySearch(_, _, _, _)
BinarySearch(s, pivot, l, r) ==
    IF l >= r THEN l
    ELSE LET bs_p == l + ((r - l) \div 2)
         IN  IF KeyLt(pivot, s[bs_p]) THEN BinarySearch(s, pivot, l, bs_p)
             ELSE BinarySearch(s, pivot, bs_p + 1, r)

RECURSIVE BinarySort(_, _)
BinarySort(s, start) ==
    IF start > Len(s) THEN s
    ELSE LET bi_pos == BinarySearch(s, s[start], 1, start)
         IN  BinarySort(SubSeq(s, 1, bi_pos - 1) \o <<s[start]>>
                            \o SubSeq(s, bi_pos, start - 1)
                            \o SubSeq(s, start + 1, Len(s)),
                        start + 1)

ListSort(s) == BinarySort(CountRun(s).list, CountRun(s).n + 1)

SortedReverse(rows) == Reverse(ListSort(Reverse(rows)))

Results(rt, df) ==
    SortedReverse(MapSeq(SortedTeams(df), LAMBDA t : ResultRow(t, rt[t])))

calculate_ratings(df, prediction_date) ==
    Results(Shrinkage(IterateRounds(InitialRatings(df, prediction_date),
                                    df, prediction_date, iterations)),
            df)

(* ---------------------------------------------------------------------- *)
(* vorp_update/pipeline.py                                                 *)
(*                                                                         *)
(* A row of nba_player_game_stats is [player_id, team_abv, game_id,        *)
(* minutes_played, stats], stats a table over StatCols; a null is NaN.     *)
(* The game's date is GameDate[game_id].  A season label "2025-26" is      *)
(* modelled by its first year, 2025.                                       *)
(* ---------------------------------------------------------------------- *)

REPLACEMENT_LEVEL == Num(0 - 2)

FULL_SEASON_GAMES == 82

MODEL_VERSION == "v2b"

Null == "<null>"

_game_date_to_season(d) == IF d.month >= 10 THEN d.year ELSE d.year - 1

StatCols ==
    {"points", "rebounds", "assists", "steals", "blocks", "turnovers",
     "offensive_rebounds", "defensive_rebounds", "field_goal_attempts",
     "field_goals_made", "free_throw_attempts", "free_throws_made",
     "three_point_fg_made", "three_point_fg_attempts", "personal_fouls",
     "plus_minus"}

\* the per-100 columns and the raw column each is computed from
RawOf ==
    [pts_100 |-> "points", fga_100 |-> "field_goal_attempts",
     fgm_100 |-> "field_goals_made", fta_100 |-> "free_throw_attempts",
     ftm_100 |-> "free_throws_made", tpm_100 |-> "three_point_fg_made",
     tpa_100 |-> "three_point_fg_attempts",
     orb_100 |-> "offensive_rebounds", drb_100 |-> "defensive_rebounds",
     ast_100 |-> "assists", stl_100 |-> "steals", blk_100 |-> "blocks",
     tov_100 |-> "turnovers", pf_100 |-> "personal_fouls"]

RateCols == DOMAIN RawOf

\* Series.sum() over the rows of a group
RECURSIVE SeqOf(_)
SeqOf(S) ==
    IF S = {} THEN <<>>
    ELSE LET seq_first == CHOOSE seq_x \in S : TRUE
         IN  <<seq_first>> \o SeqOf(S \ {seq_first})

SumOver(S, F(_)) == SumRat(MapSeq(SeqOf(S), F))

\* fillna(0)
FillNa(x) == IF IsNaN(x) THEN Zero ELSE x

\* games.merge(players, on="player_id", how="left"), the season column
MergePlayer(r, players, game_date) ==
    [player_id |-> r.player_id,
     player_name |-> IF r.player_id \in DOMAIN players
                     THEN players[r.player_id].name ELSE Null,
     position |-> IF r.player_id \in DOMAIN players
                  THEN players[r.player_id].position ELSE Null,
     team_abv |-> r.team_abv,
     game_id |-> r.game_id,
     season |-> _game_date_to_season(game_date[r.game_id]),
     minutes_played |-> r.minutes_played,
     stats |-> r.stats]

\* the rows without the minutes filter of line 126
QualifyingRows_any_minutes(games, players, game_date, season_filter) ==
    LET qa_merged == {MergePlayer(r, players, game_date) : r \in games}
        qa_kept == {r \in qa_merged :
                      season_filter = <<>> \/ r.season = season_filter[1]}
    IN  {[r EXCEPT !.stats = Table([c \in StatCols |-> FillNa(r.stats[c])])] :
            r \in qa_kept}

\* lines 123-135: the season filter, the minutes filter, fillna(0)
QualifyingRows(games, players, game_date, season_filter) ==
    LET q_merged == {MergePlayer(r, players, game_date) : r \in games}
        q_kept == {r \in q_merged :
                     /\ (season_filter = <<>> \/ r.season = season_filter[1])
                     /\ ~IsNaN(r.minutes_played)
                     /\ Gt(r.minutes_played, Zero)}
    IN  {[r EXCEPT !.stats = Table([c \in StatCols |-> FillNa(r.stats[c])])] :
            r \in q_kept}

\* lines 137-146: one (team, game) aggregate
TeamGameRows(df, team, game) == {r \in df : r.team_abv = team /\ r.game_id = game}

SumStat(rows, col) == SumOver(rows, LAMBDA r : r.stats[col])

EstimatedPossessions(team_fga, team_fta, team_tov, team_orb) ==
    Sub(Add(Add(team_fga, Mul(Rat(44, 100), team_fta)), team_tov), team_orb)

\* the estimate without the floor of line 145
team_poss_unfloored(df, team, game) ==
    EstimatedPossessions(
        SumStat(TeamGameRows(df, team, game), "field_goal_attempts"),
        SumStat(TeamGameRows(df, team, game), "free_throw_attempts"),
        SumStat(TeamGameRows(df, team, game), "turnovers"),
        SumStat(TeamGameRows(df, team, game), "offensive_rebounds"))

\* lines 144-145
team_poss(df, team, game) ==
    ClipLower(
        EstimatedPossessions(
            SumStat(TeamGameRows(df, team, game), "field_goal_attempts"),
            SumStat(TeamGameRows(df, team, game), "free_throw_attempts"),
            SumStat(TeamGameRows(df, team, game), "turnovers"),
            SumStat(TeamGameRows(df, team, game), "offensive_rebounds")),
        One)

team_min(df, team, game) ==
    ClipLower(SumOver(TeamGameRows(df, team, game), LAMBDA r : r.minutes_played),
              One)

\* the factor without the team's minutes
Per100Factor_no_team_minutes(t_min, t_poss, minutes) ==
    Div(Num(20), Mul(t_poss, minutes))

\* line 151
Per100Factor(t_min, t_poss, minutes) ==
    Div(Mul(Num(20), t_min), Mul(t_poss, minutes))

\* lines 148-161: the aggregate merged back, the per-100 columns
WithRates(r, t_poss, t_min) ==
    [player_id |-> r.player_id, player_name |-> r.player_name,
     position |-> r.position, team_abv |-> r.team_abv, game_id |-> r.game_id,
     season |-> r.season, minutes_played |-> r.minutes_played,
     stats |-> r.stats,
     team_poss |-> t_poss, team_min |-> t_min,
     rates |-> Table([c \in RateCols |->
                 Mul(r.stats[RawOf[c]],
                     Per100Factor(t_min, t_poss, r.minutes_played))])]

_load_game_data(games, players, game_date, season_filter) ==
    LET load_q == QualifyingRows(games, players, game_date, season_filter)
    IN  {WithRates(r, team_poss(load_q, r.team_abv, r.game_id),
                      team_min(load_q, r.team_abv, r.game_id)) : r \in load_q}

(* ---------------------------------------------------------------------- *)
(* BPM model: _compute_team_net_rtg, _apply_bpm                            *)
(* coefficients and lg_avgs are tables keyed by name (the JSON objects).   *)
(* ---------------------------------------------------------------------- *)

FeatureKeys ==
    {"scoring_eff", "volume_dev", "ast_dev", "orb_dev", "drb_dev", "stl_dev",
     "blk_dev", "tov_dev", "pf_dev", "tpm_dev", "ast_x_big", "scoring_x_vol"}

\* the positions line 212 loops over, and the coefficient key of each
PosKey ==
    [PG |-> "pos_PG", SG |-> "pos_SG", PF |-> "pos_PF", C |-> "pos_C",
     G |-> "pos_G"]

TrueShootingAttempts(fga_100, fta_100) == Add(fga_100, Mul(Rat(44, 100), fta_100))

lg_ts_pct(lg_avgs) ==
    LET ts_lg_tsa == TrueShootingAttempts(lg_avgs["fga_100"], lg_avgs["fta_100"])
    IN  IF Gt(ts_lg_tsa, Zero)
        THEN Div(lg_avgs["pts_100"], Mul(Num(2), ts_lg_tsa))
        ELSE Rat(56, 100)

\* lines 186-204: the feature columns of one row
Features(r, lg_avgs) ==
    LET ft_lg_tsa == TrueShootingAttempts(lg_avgs["fga_100"], lg_avgs["fta_100"])
        ft_p_tsa == TrueShootingAttempts(r.rates["fga_100"], r.rates["fta_100"])
        ft_expected_pts == Mul(Mul(Num(2), ft_p_tsa), lg_ts_pct(lg_avgs))
        ft_scoring_eff == Sub(r.rates["pts_100"], ft_expected_pts)
        ft_volume_dev == Sub(ft_p_tsa, ft_lg_tsa)
        ft_ast_dev == Sub(r.rates["ast_100"], lg_avgs["ast_100"])
        ft_is_big == IF r.position = "C" \/ r.position = "PF" THEN One ELSE Zero
    IN  [scoring_eff |-> ft_scoring_eff,
         volume_dev |-> ft_volume_dev,
         ast_dev |-> ft_ast_dev,
         orb_dev |-> Sub(r.rates["orb_100"], lg_avgs["orb_100"]),
         drb_dev |-> Sub(r.rates["drb_100"], lg_avgs["drb_100"]),
         stl_dev |-> Sub(r.rates["stl_100"], lg_avgs["stl_100"]),
         blk_dev |-> Sub(r.rates["blk_100"], lg_avgs["blk_100"]),
         tov_dev |-> Sub(r.rates["tov_100"], lg_avgs["tov_100"]),
         pf_dev |-> Sub(r.rates["pf_100"], lg_avgs["pf_100"]),
         tpm_dev |-> Sub(r.rates["tpm_100"], lg_avgs["tpm_100"]),
         ast_x_big |-> Mul(ft_ast_dev, ft_is_big),
         scoring_x_vol |-> Mul(ft_scoring_eff, ClipLower(ft_volume_dev, Zero))]

\* lines 206-210: the features the coefficient set has a weight for
FeatureTerm(r, coefficients, lg_avgs) ==
    SumOver(FeatureKeys \cap DOMAIN coefficients,
            LAMBDA k : Mul(coefficients[k], Features(r, lg_avgs)[k]))

\* lines 212-215: the position offsets
PositionOffset(position, coefficients) ==
    SumOver({pos \in DOMAIN PosKey :
                PosKey[pos] \in DOMAIN coefficients /\ position = pos},
            LAMBDA pos : coefficients[PosKey[pos]])

game_bpm_raw(r, coefficients, lg_avgs) ==
    Add(Add(coefficients["intercept"], FeatureTerm(r, coefficients, lg_avgs)),
        PositionOffset(r.position, coefficients))

\* the per-game value without the division of the plus/minus sum by 5
GameNetRtg_undivided(df, team, game, season) ==
    LET nu_rows == {r \in df : r.team_abv = team /\ r.game_id = game
                                /\ r.season = season}
        nu_first == CHOOSE r \in nu_rows : TRUE
    IN  Div(Mul(SumStat(nu_rows, "plus_minus"), Num(100)), nu_first.team_poss)

\* lines 171-179: the mean over a team-season's games of
\* (sum of plus_minus / 5) * 100 / team_poss
GameNetRtg(df, team, game, season) ==
    LET nr_rows == {r \in df : r.team_abv = team /\ r.game_id = game
                                /\ r.season = season}
        nr_first == CHOOSE r \in nr_rows : TRUE
    IN  Div(Mul(Div(SumStat(nr_rows, "plus_minus"), Num(5)), Num(100)),
            nr_first.team_poss)

_compute_team_net_rtg(df, team, season) ==
    LET tn_games == {r.game_id : r \in {x \in df : x.team_abv = team
                                                    /\ x.season = season}}
    IN  Div(SumOver(tn_games, LAMBDA g : GameNetRtg(df, team, g, season)),
            Num(Cardinality(tn_games)))

\* coefficients.get("team_net_rtg", 0)
TeamContextWeight(coefficients) ==
    IF "team_net_rtg" \in DOMAIN coefficients THEN coefficients["team_net_rtg"]
    ELSE Zero

\* the score without the team-context term
game_bpm_no_context(raw, coefficients, net_rtg) == raw

\* lines 222-223
game_bpm(raw, coefficients, net_rtg) ==
    Add(raw, Mul(TeamContextWeight(coefficients), net_rtg))

WithBpm(r, raw, net_rtg, coefficients) ==
    [player_id |-> r.player_id, player_name |-> r.player_name,
     position |-> r.position, team_abv |-> r.team_abv, game_id |-> r.game_id,
     season |-> r.season, minutes_played |-> r.minutes_played,
     stats |-> r.stats, team_poss |-> r.team_poss, team_min |-> r.team_min,
     rates |-> r.rates,
     game_bpm_raw |-> raw,
     team_net_rtg |-> FillNa(net_rtg),
     game_bpm |-> game_bpm(raw, coefficients, FillNa(net_rtg))]

_apply_bpm(df, coefficients, lg_avgs) ==
    {WithBpm(r, game_bpm_raw(r, coefficients, lg_avgs),
                _compute_team_net_rtg(df, r.team_abv, r.season), coefficients) :
        r \in df}

(* ---------------------------------------------------------------------- *)
(* Aggregation and VORP: _aggregate, _calculate_vorp                       *)
(* ---------------------------------------------------------------------- *)

\* groupby([...]) drops the groups whose key holds a null (dropna=True)
PlayerSeasonKeys(df) ==
    {<<r.player_id, r.player_name, r.team_abv, r.season>> :
        r \in {x \in df : x.player_name # Null}}

\* the row with the plain mean of the scores instead of the weighted one
PlayerSeasonRow_unweighted(df, key) ==
    LET pu_rows == {r \in df : /\ r.player_id = key[1] /\ r.player_name = key[2]
                               /\ r.team_abv = key[3] /\ r.season = key[4]}
    IN  [player_id |-> key[1], player_name |-> key[2], team_abv |-> key[3],
         season |-> key[4],
         games_played |-> Cardinality(pu_rows),
         total_minutes |-> SumOver(pu_rows, LAMBDA r : r.minutes_played),
         avg_bpm |-> Div(SumOver(pu_rows, LAMBDA r : r.game_bpm),
                         Num(Cardinality(pu_rows)))]

\* lines 232-240, one group

PlayerSeasonRow(df, key) ==
    LET ps_rows == {r \in df : /\ r.player_id = key[1] /\ r.player_name = key[2]
                               /\ r.team_abv = key[3] /\ r.season = key[4]}
        ps_minutes == SumOver(ps_rows, LAMBDA r : r.minutes_played)
    IN  [player_id |-> key[1], player_name |-> key[2], team_abv |-> key[3],
         season |-> key[4],
         games_played |-> Cardinality(ps_rows),
         total_minutes |-> ps_minutes,
         avg_bpm |-> Div(SumOver(ps_rows,
                                 LAMBDA r : Mul(r.game_bpm, r.minutes_played)),
                         ps_minutes)]

\* the row with team_games counting game rows instead of distinct games
TeamSeasonRow_counting_rows(df, team, season) ==
    LET tc_rows == {r \in df : r.team_abv = team /\ r.season = season}
    IN  [team_abv |-> team, season |-> season,
         team_games |-> Cardinality(tc_rows),
         team_total_minutes |-> SumOver(tc_rows, LAMBDA r : r.minutes_played)]

\* lines 242-245, one group

TeamSeasonRow(df, team, season) ==
    LET ts_rows == {r \in df : r.team_abv = team /\ r.season = season}
    IN  [team_abv |-> team, season |-> season,
         team_games |-> Cardinality({r.game_id : r \in ts_rows}),
         team_total_minutes |-> SumOver(ts_rows, LAMBDA r : r.minutes_played)]

\* _aggregate returns (ps, ts)
_aggregate_ps(df) == {PlayerSeasonRow(df, k) : k \in PlayerSeasonKeys(df)}

_aggregate_ts(df) ==
    {TeamSeasonRow(df, k[1], k[2]) : k \in {<<r.team_abv, r.season>> : r \in df}}

\* the share without the cap of line 253
pct_minutes_uncapped(total_minutes, team_total_minutes) ==
    Div(total_minutes, Div(team_total_minutes, Num(5)))

\* lines 252-253
pct_minutes(total_minutes, team_total_minutes) ==
    ClipUpper(Div(total_minutes, Div(team_total_minutes, Num(5))), One)

\* the value without line 259: 0 where the average impact is undefined
vorp_undefined_as_zero(avg_bpm, pct, team_games) ==
    IF IsNaN(avg_bpm) THEN Zero
    ELSE Mul(Mul(Sub(avg_bpm, REPLACEMENT_LEVEL), pct),
             Rat(team_games, FULL_SEASON_GAMES))

\* the value measured from 0 instead of from the replacement level
vorp_over_zero(avg_bpm, pct, team_games) ==
    IF IsNaN(avg_bpm) THEN NaN
    ELSE Mul(Mul(avg_bpm, pct), Rat(team_games, FULL_SEASON_GAMES))

\* lines 254-259
vorp(avg_bpm, pct, team_games) ==
    IF IsNaN(avg_bpm) THEN NaN
    ELSE Mul(Mul(Sub(avg_bpm, REPLACEMENT_LEVEL), pct),
             Rat(team_games, FULL_SEASON_GAMES))

VorpRow(p, t) ==
    [player_id |-> p.player_id, player_name |-> p.player_name,
     team_abv |-> p.team_abv, season |-> p.season,
     games_played |-> p.games_played, total_minutes |-> p.total_minutes,
     avg_bpm |-> p.avg_bpm,
     team_games |-> t.team_games, team_total_minutes |-> t.team_total_minutes,
     pct_minutes |-> pct_minutes(p.total_minutes, t.team_total_minutes),
     vorp |-> vorp(p.avg_bpm,
                   pct_minutes(p.total_minutes, t.team_total_minutes),
                   t.team_games)]

\* ps.merge(ts, on=["team_abv", "season"], how="left")
_calculate_vorp(ps, ts) ==
    {VorpRow(p, CHOOSE t \in ts : t.team_abv = p.team_abv /\ t.season = p.season) :
        p \in ps}

\* With no player-season group the frame _aggregate returns has no
\* total_minutes column, and line 252 raises KeyError.
CalculateVorpRaises(ps) == ps = {}

\* lines 322-338: the records handed to the upsert
VorpRecord(row, model_version) ==
    [player_id |-> row.player_id, player_name |-> row.player_name,
     team |-> row.team_abv, season |-> row.season,
     games_played |-> row.games_played,
     total_minutes |-> RoundTo(row.total_minutes, 10),
     pct_minutes |-> RoundTo(row.pct_minutes, 10000),
     team_games |-> row.team_games,
     estimated_bpm |-> Round2(row.avg_bpm),
     vorp |-> Round2(row.vorp),
     model_version |-> model_version]

VorpRecords(vorp_df) == {VorpRecord(row, MODEL_VERSION) : row \in vorp_df}

(* ---------------------------------------------------------------------- *)
(* The database: nba_team_ratings and player_season_vorp, transactions,    *)
(* the two upserts.  A table is a function from its unique key to the row; *)
(* NOW() is the number of the run.                                         *)
(* ---------------------------------------------------------------------- *)

SEASON == 2025

\* the parameters run_ratings_update binds for one rating (lines 55-63)
RatingsParams(r, last_game) ==
    [team |-> r.team, season |-> SEASON, adj_em |-> r.adj_em,
     adj_off |-> r.adj_o, adj_def |-> r.adj_d, games |-> r.games,
     last_game_date |-> last_game]

RECURSIVE MaxDate(_)
MaxDate(df) ==
    IF Len(df) = 1 THEN df[1].game_date
    ELSE LET md_rest == MaxDate(Tail(df))
         IN  IF df[1].game_date > md_rest THEN df[1].game_date ELSE md_rest

\* lines 47-51 and the parameter list of the loop at lines 54-63
RatingsStatements(df, today) ==
    MapSeq(calculate_ratings(df, <<today>>),
           LAMBDA r : RatingsParams(r, MaxDate(df)))

RatingsKey(rec) == <<rec.team, rec.season>>

\* an upsert that adds the new game count to the stored one on conflict
UpsertRating_accumulating(table, rec, now) ==
    (RatingsKey(rec) :>
        [adj_em |-> rec.adj_em, adj_off |-> rec.adj_off, adj_def |-> rec.adj_def,
         games |-> IF RatingsKey(rec) \in DOMAIN table
                   THEN table[RatingsKey(rec)].games + rec.games
                   ELSE rec.games,
         last_game_date |-> rec.last_game_date,
         calculated_at |-> now])
    @@ table

\* UPSERT_SQL: insert, or on conflict (team, season) set every value column
UpsertRating(table, rec, now) ==
    (RatingsKey(rec) :>
        [adj_em |-> rec.adj_em, adj_off |-> rec.adj_off, adj_def |-> rec.adj_def,
         games |-> rec.games, last_game_date |-> rec.last_game_date,
         calculated_at |-> now])
    @@ table

VorpKey(rec) == <<rec.player_id, rec.team, rec.season>>

\* _UPSERT_SQL: insert with the next id, or on conflict (player_id, team,
\* season) set every value column and keep the row's id
UpsertVorp(table, rec, now, next_id) ==
    (VorpKey(rec) :>
        [id |-> IF VorpKey(rec) \in DOMAIN table THEN table[VorpKey(rec)].id
                ELSE next_id,
         player_name |-> rec.player_name, games_played |-> rec.games_played,
         total_minutes |-> rec.total_minutes, pct_minutes |-> rec.pct_minutes,
         team_games |-> rec.team_games, estimated_bpm |-> rec.estimated_bpm,
         vorp |-> rec.vorp, model_version |-> rec.model_version,
         calculated_at |-> now])
    @@ table

\* a statement on an autocommit connection: visible at once
Execute_autocommit(committed, pending, row_written) ==
    [committed |-> row_written @@ committed, pending |-> row_written @@ pending]

\* conn.execute inside "with engine.begin()": the statement acts on the
\* transaction's view; other connections see it only after the commit
Execute(committed, pending, row_written) ==
    [committed |-> committed, pending |-> row_written @@ pending]

\* a commit that replaces the table by the rows of the transaction
Commit_replacing(committed, pending) == pending

\* leaving the with-block normally: COMMIT
Commit(committed, pending) == pending @@ committed

\* an exit by exception that keeps the statements already executed
Rollback_keeping(committed, pending) == pending @@ committed

\* leaving the with-block by an exception: ROLLBACK
Rollback(committed, pending) == committed

\* main(): "except Exception: raise SystemExit(1)", else the process ends with 0
ExitStatus(raised) == IF raised THEN 1 ELSE 0

(* ---------------------------------------------------------------------- *)
(* State                                                                   *)
(* ---------------------------------------------------------------------- *)

VARIABLES
    games_df,          \* calculate_ratings: the games table passed in
    prediction_date,   \* calculate_ratings: <<>> (None) or <<day>>
    r_pc,              \* calculate_ratings: position in the function
    ratings,           \* calculate_ratings: the ratings dict
    round,             \* calculate_ratings: rounds of the iteration completed
    results,           \* calculate_ratings: the returned list
    v_games,           \* refresh_vorp: the rows of nba_player_game_stats
    v_coefficients,    \* refresh_vorp: the coefficients of bpm_coefficients.json
    v_season,          \* refresh_vorp: the season argument, <<>> for None
    v_pc,              \* refresh_vorp: position in the function
    v_df,              \* refresh_vorp: df
    v_ps,              \* refresh_vorp: ps
    v_ts,              \* refresh_vorp: ts_agg
    v_vorp,            \* refresh_vorp: vorp_df
    v_records,         \* _write_to_neon: records
    v_log,             \* refresh_vorp: the lines printed so far
    w_ages,            \* _game_weight: days from each game to the prediction date
    w_half_life,       \* _game_weight: half_life
    w_floor,           \* _game_weight: floor
    w_pc,              \* position of the weighting of the games
    w_weights,         \* the weight of each game at w_half_life
    w_shorter,         \* the weights at the half-life used before, if any
    k_params,          \* the module-level ADJEM_PARAMS and LEAGUE_AVG_EFFICIENCY
    k_input,           \* per call of calculate_ratings: the caller's games table
    k_date,            \* per call: prediction_date
    k_pc,              \* per call: position in the function
    k_df,              \* per call: df, the copy of line 58
    k_ratings,         \* per call: the ratings dict
    k_acc,             \* per call: ao_wsum, ad_wsum and wt of the current round
    k_round,           \* per call: rounds completed
    k_next,            \* per call: index of the next row of df.iterrows()
    k_results,         \* per call: the returned list
    k_mixed,           \* per call: another call took a step while it ran
    db_ratings,        \* nba_team_ratings, committed rows
    db_vorp,           \* player_season_vorp, committed rows
    vorp_table,        \* 0: player_season_vorp does not exist; else the run that created it
    vorp_id_seq,       \* the sequence behind player_season_vorp.id
    run_no,            \* number of the current run of an entry point
    run_kind,          \* "ratings" or "vorp"
    run_pc,            \* position of the run
    run_input,         \* what the run reads: source tables, date, arguments
    run_out,           \* the statements' parameter records, in order
    run_next,          \* index of the next record to execute
    txn,               \* the open transaction: [open, writes]
    exit_status,       \* exit status of the last run that ended
    failed_at,         \* position at which the run raised, "" if it did not
    run_start,         \* at the start of the run: the tables and last_run
    last_run,          \* per kind: input and records of the last run that committed
    reader_view        \* keys of the current run's rows a reader last saw

weight_vars == <<w_ages, w_half_life, w_floor, w_pc, w_weights, w_shorter>>

call_vars == <<k_params, k_input, k_date, k_pc, k_df, k_ratings, k_acc,
               k_round, k_next, k_results, k_mixed>>

ratings_vars == <<games_df, prediction_date, r_pc, ratings, round, results,
                  weight_vars, call_vars>>

vorp_vars == <<v_games, v_coefficients, v_season, v_pc, v_df, v_ps, v_ts,
               v_vorp, v_records, v_log>>

db_vars == <<db_ratings, db_vorp, vorp_table, vorp_id_seq>>

run_vars == <<run_no, run_kind, run_pc, run_input, run_out, run_next, txn,
              exit_status, failed_at, run_start, last_run, reader_view>>

vars == <<ratings_vars, vorp_vars, db_vars, run_vars>>

\* lines 14-22
ModuleState ==
    [half_life_days |-> half_life_days, weight_floor |-> weight_floor,
     iterations |-> iterations, min_games |-> min_games,
     min_games_regression |-> min_games_regression,
     LEAGUE_AVG_EFFICIENCY |-> LEAGUE_AVG_EFFICIENCY]

\* no call of calculate_ratings in progress
CallIdle ==
    /\ k_params = ModuleState
    /\ k_input = <<>>
    /\ k_date = <<>>
    /\ k_pc = <<>>
    /\ k_df = <<>>
    /\ k_ratings = <<>>
    /\ k_acc = <<>>
    /\ k_round = <<>>
    /\ k_next = <<>>
    /\ k_results = <<>>
    /\ k_mixed = <<>>

WeightIdle ==
    /\ w_ages = <<>>
    /\ w_half_life = half_life_days
    /\ w_floor = weight_floor
    /\ w_pc = "idle"
    /\ w_weights = <<>>
    /\ w_shorter = <<>>

RatingsIdle ==
    /\ games_df = <<>>
    /\ prediction_date = <<>>
    /\ r_pc = "idle"
    /\ ratings = <<>>
    /\ round = 0
    /\ results = <<>>
    /\ WeightIdle
    /\ CallIdle

VorpIdle ==
    /\ v_games = {}
    /\ v_coefficients = <<>>
    /\ v_season = <<>>
    /\ v_pc = "idle"
    /\ v_df = {}
    /\ v_ps = {}
    /\ v_ts = {}
    /\ v_vorp = {}
    /\ v_records = {}
    /\ v_log = <<>>

NoTxn == [open |-> FALSE, writes |-> <<>>]

NoInput == [kind |-> "none"]

NoRun == [ratings |-> [input |-> NoInput, out |-> <<>>],
          vorp |-> [input |-> NoInput, out |-> <<>>]]

RunIdle ==
    /\ db_ratings = <<>>
    /\ db_vorp = <<>>
    /\ vorp_table = 0
    /\ vorp_id_seq = 1
    /\ run_no = 0
    /\ run_kind = "none"
    /\ run_pc = "idle"
    /\ run_input = NoInput
    /\ run_out = <<>>
    /\ run_next = 1
    /\ txn = NoTxn
    /\ exit_status = 0
    /\ failed_at = ""
    /\ run_start = [db_ratings |-> <<>>, db_vorp |-> <<>>, last_run |-> NoRun]
    /\ last_run = NoRun
    /\ reader_view = {}

(* ---------------------------------------------------------------------- *)
(* calculate_ratings as a state machine over bounded games tables          *)
(* ---------------------------------------------------------------------- *)

MaxGames == 2

PredictionDay == 2 * half_life_days

Fixtures == {<<"A", "B">>, <<"B", "C">>, <<"C", "A">>}

Scores == {<<110, 100>>, <<105, 95>>, <<0, 0>>}

\* today, one half-life ago, and one half-life in the future
GameDays == {PredictionDay, PredictionDay - half_life_days,
             PredictionDay + half_life_days}

GamePool ==
    {[home_team |-> f[1], away_team |-> f[2],
      home_score |-> sc[1], away_score |-> sc[2], game_date |-> d] :
        f \in Fixtures, sc \in Scores, d \in GameDays}

GameTables == SeqsUpTo(GamePool, MaxGames)

SeasonGame(h, a, hs, as, d) ==
    [home_team |-> h, away_team |-> a, home_score |-> hs, away_score |-> as,
     game_date |-> d]

\* further tables: A 5, B 4, C 1 games, all on the prediction date;
\* A 5, B 6, C 1 games, two of them one half-life earlier; and five teams,
\* two of which met in a single game that ended 0-0
SeasonTables ==
    {<<SeasonGame("A", "B", 120, 80, PredictionDay),
       SeasonGame("A", "B", 100, 100, PredictionDay),
       SeasonGame("A", "B", 90, 110, PredictionDay),
       SeasonGame("A", "B", 120, 80, PredictionDay),
       SeasonGame("C", "A", 100, 100, PredictionDay)>>,
     <<SeasonGame("A", "B", 120, 80, PredictionDay - half_life_days),
       SeasonGame("A", "B", 90, 110, PredictionDay - half_life_days),
       SeasonGame("A", "B", 100, 100, PredictionDay),
       SeasonGame("A", "B", 120, 80, PredictionDay),
       SeasonGame("A", "B", 120, 80, PredictionDay),
       SeasonGame("B", "C", 90, 110, PredictionDay)>>,
     <<SeasonGame("B", "E", 110, 90, PredictionDay),
       SeasonGame("E", "D", 80, 120, PredictionDay),
       SeasonGame("A", "C", 0, 0, PredictionDay)>>}

RatingsInit ==
    /\ games_df \in GameTables \cup SeasonTables
    /\ prediction_date \in {<<>>, <<PredictionDay>>}
    /\ r_pc = "start"
    /\ ratings = <<>>
    /\ round = 0
    /\ results = <<>>
    /\ WeightIdle
    /\ CallIdle
    /\ VorpIdle
    /\ RunIdle

\* lines 59-99: derived columns, weights, team list, initial ratings
R_Initialize ==
    /\ r_pc = "start"
    /\ ratings' = InitialRatings(games_df, prediction_date)
    /\ r_pc' = "iterate"
    /\ UNCHANGED <<games_df, prediction_date, round, results, weight_vars, call_vars,
                   vorp_vars, db_vars, run_vars>>

\* lines 101-120: one round of the iteration
R_Round ==
    /\ r_pc = "iterate"
    /\ round < iterations
    /\ ratings' = IterateRound(ratings, games_df, prediction_date)
    /\ round' = round + 1
    /\ UNCHANGED <<games_df, prediction_date, r_pc, results, weight_vars, call_vars,
                   vorp_vars, db_vars, run_vars>>

\* lines 122-129: small-sample shrinkage
R_Shrink ==
    /\ r_pc = "iterate"
    /\ round = iterations
    /\ ratings' = Shrinkage(ratings)
    /\ r_pc' = "emit"
    /\ UNCHANGED <<games_df, prediction_date, round, results, weight_vars, call_vars,
                   vorp_vars, db_vars, run_vars>>

\* lines 131-140: rounded rows, sorted
R_Return ==
    /\ r_pc = "emit"
    /\ results' = Results(ratings, games_df)
    /\ r_pc' = "done"
    /\ UNCHANGED <<games_df, prediction_date, ratings, round, weight_vars, call_vars,
                   vorp_vars, db_vars, run_vars>>

RatingsNext == R_Initialize \/ R_Round \/ R_Shrink \/ R_Return

SpecRatings == RatingsInit /\ [][RatingsNext]_vars

(* ---------------------------------------------------------------------- *)
(* _game_weight applied to bounded lists of games, at two half-lives       *)
(* ---------------------------------------------------------------------- *)

MaxAges == 3

\* days elapsed of a game: one future game, one on the prediction date, two
\* earlier ones.  Every age is a whole number of every half-life of HalfLives.
AgePool ==
    {0 - 2 * half_life_days, 0, 2 * half_life_days, 4 * half_life_days}

HalfLives == {half_life_days, 2 * half_life_days}

\* no floor, the default floor, a higher floor
Floors == {Zero, weight_floor, Rat(1, 4)}

\* the weights of the games aged ages, as line 70 computes them per game
GameWeights(ages, half_life, floor) ==
    [i \in 1..Len(ages) |->
        _game_weight(PredictionDay - ages[i], PredictionDay, half_life, floor)]

WeightsInit ==
    /\ w_ages \in SeqsUpTo(AgePool, MaxAges)
    /\ w_half_life \in HalfLives
    /\ w_floor \in Floors
    /\ w_pc = "start"
    /\ w_weights = <<>>
    /\ w_shorter = <<>>
    /\ CallIdle
    /\ games_df = <<>>
    /\ prediction_date = <<>>
    /\ r_pc = "idle"
    /\ ratings = <<>>
    /\ round = 0
    /\ results = <<>>
    /\ VorpIdle
    /\ RunIdle

\* lines 25-43, once per game
W_Compute ==
    /\ w_pc = "start"
    /\ w_weights' = GameWeights(w_ages, w_half_life, w_floor)
    /\ w_pc' = "computed"
    /\ UNCHANGED <<w_ages, w_half_life, w_floor, w_shorter, games_df,
                   prediction_date, r_pc, ratings, round, results, call_vars,
                   vorp_vars, db_vars, run_vars>>

\* the same games and floor weighed again with a longer half-life; w_shorter
\* keeps the weights of the shorter one
W_LongerHalfLife ==
    /\ w_pc = "computed"
    /\ \E h \in HalfLives :
          /\ h > w_half_life
          /\ w_half_life' = h
          /\ w_weights' = GameWeights(w_ages, h, w_floor)
    /\ w_shorter' = w_weights
    /\ w_pc' = "longer"
    /\ UNCHANGED <<w_ages, w_floor, games_df, prediction_date, r_pc, ratings,
                   round, results, call_vars, vorp_vars, db_vars, run_vars>>

WeightsNext == W_Compute \/ W_LongerHalfLife

SpecWeights == WeightsInit /\ [][WeightsNext]_vars

(* ---------------------------------------------------------------------- *)
(* refresh_vorp as a state machine over bounded stats tables               *)
(* ---------------------------------------------------------------------- *)

MaxRows == 2

\* nba_players: p4 has game rows and no row here
PlayersTable ==
    [p1 |-> [name |-> "n1", position |-> "PG"],
     p2 |-> [name |-> "n2", position |-> "C"],
     p3 |-> [name |-> "n3", position |-> "SF"]]

\* g0 is a game of season 2024-25, g1 and g2 of season 2025-26
GameDate ==
    [g0 |-> [year |-> 2025, month |-> 4],
     g1 |-> [year |-> 2025, month |-> 11],
     g2 |-> [year |-> 2026, month |-> 1]]

StatLine(pts, reb, ast, stl, blk, tov, orb, drb, fga, fgm, fta, ftm, tpm, tpa, pf, pm) ==
    [points |-> pts, rebounds |-> reb, assists |-> ast, steals |-> stl,
     blocks |-> blk, turnovers |-> tov, offensive_rebounds |-> orb,
     defensive_rebounds |-> drb, field_goal_attempts |-> fga,
     field_goals_made |-> fgm, free_throw_attempts |-> fta,
     free_throws_made |-> ftm, three_point_fg_made |-> tpm,
     three_point_fg_attempts |-> tpa, personal_fouls |-> pf,
     plus_minus |-> pm]

\* avg: 20 possessions (9 + 0.44 * 25 + 2 - 2); orb: offensive rebounds exceed
\* the other terms; zero: all counts 0; null: every stat missing
StatLines ==
    [avg |-> StatLine(Num(32), Num(10), Num(5), Num(1), Num(1), Num(2), Num(2),
                      Num(8), Num(9), Num(5), Num(25), Num(20), Num(2), Num(4),
                      Num(3), Num(10)),
     orb |-> StatLine(Num(4), Num(14), Num(1), Num(0), Num(2), Num(1), Num(12),
                      Num(2), Num(5), Num(2), Num(0), Num(0), Num(0), Num(1),
                      Num(4), Num(0 - 10)),
     zero |-> StatLine(Zero, Zero, Zero, Zero, Zero, Zero, Zero, Zero, Zero,
                       Zero, Zero, Zero, Zero, Zero, Zero, Zero),
     null |-> StatLine(NaN, NaN, NaN, NaN, NaN, NaN, NaN, NaN, NaN, NaN, NaN,
                       NaN, NaN, NaN, NaN, NaN)]

\* league averages: the per-100 rates of the avg line played alone for a team
LeagueAverages ==
    [pts_100 |-> Num(32), fga_100 |-> Num(9), fta_100 |-> Num(25),
     ast_100 |-> Num(5), orb_100 |-> Num(2), drb_100 |-> Num(8),
     stl_100 |-> Num(1), blk_100 |-> Num(1), tov_100 |-> Num(2),
     pf_100 |-> Num(3), tpm_100 |-> Num(2)]

\* coefficient sets: the intercept alone; every key; some keys; an artifact
\* whose intercept is the JSON literal NaN, which json.load accepts
CoefficientSets ==
    {[intercept |-> Num(0 - 2)],
     [intercept |-> NaN],
     [intercept |-> Rat(1, 2), scoring_eff |-> Rat(1, 4), volume_dev |-> Rat(1, 10),
      ast_dev |-> Rat(1, 2), orb_dev |-> Rat(1, 4), drb_dev |-> Rat(1, 10),
      stl_dev |-> One, blk_dev |-> Rat(1, 2), tov_dev |-> Num(0 - 1),
      pf_dev |-> Rat(0 - 1, 4), tpm_dev |-> Rat(1, 4), ast_x_big |-> Rat(1, 4),
      scoring_x_vol |-> Rat(1, 100),
      pos_PG |-> Rat(1, 2), pos_C |-> Rat(0 - 1, 2), pos_SF |-> One,
      team_net_rtg |-> Rat(1, 10)],
     [intercept |-> Num(0 - 1), scoring_eff |-> Rat(1, 4), ast_dev |-> Rat(1, 2),
      pos_PG |-> Rat(1, 2)]}

\* (player, team, game) of the rows a table may hold
RowKeys ==
    {<<"p1", "T1", "g1">>, <<"p1", "T1", "g2">>, <<"p1", "T2", "g2">>,
     <<"p2", "T1", "g1">>, <<"p3", "T2", "g1">>, <<"p4", "T1", "g1">>,
     <<"p1", "T1", "g0">>}

\* (minutes, stat line) of a row that qualifies, and of one that does not
PlayedVariants == {<<Num(40), "avg">>, <<Num(40), "orb">>, <<Num(5), "zero">>}

BenchVariants ==
    {<<Zero, "avg">>, <<Num(0 - 5), "avg">>, <<NaN, "avg">>, <<Num(5), "null">>}

StatsRow(k, v) ==
    [player_id |-> k[1], team_abv |-> k[2], game_id |-> k[3],
     minutes_played |-> v[1], stats |-> StatLines[v[2]]]

RowPool ==
    {StatsRow(k, v) : k \in RowKeys, v \in PlayedVariants}
    \cup {StatsRow(k, v) : k \in {<<"p1", "T1", "g1">>, <<"p2", "T1", "g1">>},
                           v \in BenchVariants}

\* the tables of at most n rows of the pool; a player has at most one row per game
RECURSIVE TablesUpTo(_)
TablesUpTo(n) ==
    IF n = 0 THEN {{}}
    ELSE LET tb_smaller == TablesUpTo(n - 1)
         IN  tb_smaller \cup
             UNION {{t \cup {x} :
                        x \in {y \in RowPool :
                                 \A a \in t : ~(a.player_id = y.player_id
                                                /\ a.game_id = y.game_id)}} :
                    t \in tb_smaller}

StatsTables == TablesUpTo(MaxRows)

VorpInit ==
    /\ v_games \in StatsTables
    /\ v_coefficients \in CoefficientSets
    /\ v_season \in {<<>>, <<2025>>}
    /\ v_pc = "start"
    /\ v_df = {}
    /\ v_ps = {}
    /\ v_ts = {}
    /\ v_vorp = {}
    /\ v_records = {}
    /\ v_log = <<"VORP Refresh starting", "Model">>
    /\ RatingsIdle
    /\ RunIdle

\* line 359
V_LoadGameData ==
    /\ v_pc = "start"
    /\ v_df' = _load_game_data(v_games, PlayersTable, GameDate, v_season)
    /\ v_pc' = "bpm"
    /\ v_log' = v_log \o <<"Pulling data from Neon", "game rows">>
    /\ UNCHANGED <<v_games, v_coefficients, v_season, v_ps, v_ts, v_vorp,
                   v_records, ratings_vars, db_vars, run_vars>>

\* line 360
V_ApplyBpm ==
    /\ v_pc = "bpm"
    /\ v_df' = _apply_bpm(v_df, v_coefficients, LeagueAverages)
    /\ v_pc' = "aggregate"
    /\ UNCHANGED <<v_games, v_coefficients, v_season, v_ps, v_ts, v_vorp,
                   v_records, v_log, ratings_vars, db_vars, run_vars>>

\* line 362
V_Aggregate ==
    /\ v_pc = "aggregate"
    /\ v_ps' = _aggregate_ps(v_df)
    /\ v_ts' = _aggregate_ts(v_df)
    /\ v_pc' = "vorp"
    /\ v_log' = v_log \o <<"Aggregated">>
    /\ UNCHANGED <<v_games, v_coefficients, v_season, v_df, v_vorp, v_records,
                   ratings_vars, db_vars, run_vars>>

\* line 366
V_CalculateVorp ==
    /\ v_pc = "vorp"
    /\ ~CalculateVorpRaises(v_ps)
    /\ v_vorp' = _calculate_vorp(v_ps, v_ts)
    /\ v_pc' = "write"
    /\ v_log' = v_log \o <<"VORP calculated">>
    /\ UNCHANGED <<v_games, v_coefficients, v_season, v_df, v_ps, v_ts,
                   v_records, ratings_vars, db_vars, run_vars>>

\* line 366, raising
V_CalculateVorpRaises ==
    /\ v_pc = "vorp"
    /\ CalculateVorpRaises(v_ps)
    /\ v_pc' = "raised"
    /\ UNCHANGED <<v_games, v_coefficients, v_season, v_df, v_ps, v_ts, v_vorp,
                   v_records, v_log, ratings_vars, db_vars, run_vars>>

\* lines 322-338
V_Records ==
    /\ v_pc = "write"
    /\ v_records' = VorpRecords(v_vorp)
    /\ v_pc' = "done"
    /\ UNCHANGED <<v_games, v_coefficients, v_season, v_df, v_ps, v_ts, v_vorp,
                   v_log, ratings_vars, db_vars, run_vars>>

VorpNext ==
    \/ V_LoadGameData
    \/ V_ApplyBpm
    \/ V_Aggregate
    \/ V_CalculateVorp
    \/ V_CalculateVorpRaises
    \/ V_Records

SpecVorp == VorpInit /\ [][VorpNext]_vars

(* ---------------------------------------------------------------------- *)
(* Runs of the two entry points against the database                       *)
(* ---------------------------------------------------------------------- *)

MaxRuns == 2

Game(home, away, hs, as, d) ==
    [home_team |-> home, away_team |-> away, home_score |-> hs,
     away_score |-> as, game_date |-> d]

\* nba_game_results of the season: no completed game; A beats B twice at
\* home; the same with a later game of B and C; one game of B and C
RunGameTables ==
    {<<>>,
     <<Game("A", "B", 110, 100, PredictionDay - half_life_days),
       Game("A", "B", 105, 95, PredictionDay)>>,
     <<Game("A", "B", 110, 100, PredictionDay - half_life_days),
       Game("B", "C", 105, 95, PredictionDay)>>,
     <<Game("B", "C", 100, 104, PredictionDay)>>}

\* datetime.now() of a run
RunDays == {PredictionDay, PredictionDay + 1}

\* nba_player_game_stats: no row; one row of season 2024-25; two players of
\* T1 in g1; p1 for T2 in g2 and T1 in g0
RunStatsTables ==
    {{},
     {StatsRow(<<"p1", "T1", "g0">>, <<Num(40), "avg">>)},
     {StatsRow(<<"p1", "T1", "g1">>, <<Num(40), "avg">>),
      StatsRow(<<"p2", "T1", "g1">>, <<Num(40), "orb">>)},
     {StatsRow(<<"p1", "T2", "g2">>, <<Num(40), "avg">>),
      StatsRow(<<"p1", "T1", "g0">>, <<Num(5), "zero">>)}}

RatingsInputs ==
    {[kind |-> "ratings", games |-> g, today |-> d] :
        g \in RunGameTables, d \in RunDays}

\* bpm_coefficients.json: the intercept alone, or every key
RunCoefficientSets ==
    {co \in CoefficientSets : DOMAIN co = {"intercept"} \/ "tpm_dev" \in DOMAIN co}

VorpInputs ==
    {[kind |-> "vorp", stats |-> st, coefficients |-> co, season |-> se] :
        st \in RunStatsTables, co \in RunCoefficientSets,
        se \in {<<>>, <<SEASON>>}}

\* refresh_vorp up to the records of _write_to_neon
VorpFrame(stats, coefficients, season_filter) ==
    _apply_bpm(_load_game_data(stats, PlayersTable, GameDate, season_filter),
               coefficients, LeagueAverages)

VorpStatements(stats, coefficients, season_filter) ==
    SeqOf(VorpRecords(
        _calculate_vorp(_aggregate_ps(VorpFrame(stats, coefficients, season_filter)),
                        _aggregate_ts(VorpFrame(stats, coefficients, season_filter)))))

\* the committed table the current run writes
Sink == IF run_kind = "vorp" THEN db_vorp ELSE db_ratings

StatementKey(rec) == IF run_kind = "vorp" THEN VorpKey(rec) ELSE RatingsKey(rec)

\* the keys of the records the run hands to its upsert
RunKeys == {StatementKey(run_out[i]) : i \in DOMAIN run_out}

\* the rows of a table that carry the current run's NOW()
RowsOfRun(table) == {k \in DOMAIN table : table[k].calculated_at = run_no}

RunInit ==
    /\ RatingsIdle
    /\ VorpIdle
    /\ RunIdle

\* python -m nba_ratings_update / python -m vorp_update [--season S]
StartRun ==
    /\ run_pc \in {"idle", "ended"}
    /\ run_no < MaxRuns
    /\ \E input \in RatingsInputs \cup VorpInputs :
          /\ run_input' = input
          /\ run_kind' = input.kind
    /\ run_no' = run_no + 1
    /\ run_pc' = "load"
    /\ run_out' = <<>>
    /\ run_next' = 1
    /\ failed_at' = ""
    /\ run_start' = [db_ratings |-> db_ratings, db_vorp |-> db_vorp,
                     last_run |-> last_run]
    /\ reader_view' = {}
    /\ UNCHANGED <<txn, exit_status, last_run, db_vars, ratings_vars, vorp_vars>>

\* nba_ratings_update/pipeline.py lines 33-43: the query, and the return
\* when there is no completed game
LoadGames ==
    /\ run_pc = "load"
    /\ run_kind = "ratings"
    /\ IF run_input.games = <<>>
       THEN /\ run_pc' = "ended"
            /\ exit_status' = ExitStatus(FALSE)
       ELSE /\ run_pc' = "compute"
            /\ UNCHANGED exit_status
    /\ UNCHANGED <<run_no, run_kind, run_input, run_out, run_next, txn,
                   failed_at, run_start, last_run, reader_view, db_vars,
                   ratings_vars, vorp_vars>>

\* nba_ratings_update/pipeline.py lines 47-51
ComputeRatings ==
    /\ run_pc = "compute"
    /\ run_kind = "ratings"
    /\ run_out' = RatingsStatements(run_input.games, run_input.today)
    /\ run_pc' = "begin"
    /\ UNCHANGED <<run_no, run_kind, run_input, run_next, txn, exit_status,
                   failed_at, run_start, last_run, reader_view, db_vars,
                   ratings_vars, vorp_vars>>

\* vorp_update/pipeline.py lines 356-359: coefficients and game rows
LoadStats ==
    /\ run_pc = "load"
    /\ run_kind = "vorp"
    /\ run_pc' = "compute"
    /\ UNCHANGED <<run_no, run_kind, run_input, run_out, run_next, txn,
                   exit_status, failed_at, run_start, last_run, reader_view,
                   db_vars, ratings_vars, vorp_vars>>

\* vorp_update/pipeline.py lines 360-367; line 366 raises when no row qualifies
ComputeVorp ==
    /\ run_pc = "compute"
    /\ run_kind = "vorp"
    /\ IF CalculateVorpRaises(_aggregate_ps(
              VorpFrame(run_input.stats, run_input.coefficients, run_input.season)))
       THEN /\ run_pc' = "ended"
            /\ failed_at' = "compute"
            /\ exit_status' = ExitStatus(TRUE)
       ELSE /\ run_pc' = "ddl"
            /\ UNCHANGED <<failed_at, exit_status>>
    /\ UNCHANGED <<run_no, run_kind, run_input, run_out, run_next, txn,
                   run_start, last_run, reader_view, db_vars, ratings_vars,
                   vorp_vars>>

\* _write_to_neon lines 317-320: CREATE TABLE / INDEX IF NOT EXISTS in a
\* transaction of their own, committed on leaving the with-block
CreateTable ==
    /\ run_pc = "ddl"
    /\ vorp_table' = IF vorp_table = 0 THEN run_no ELSE vorp_table
    /\ run_pc' = "convert"
    /\ UNCHANGED <<run_no, run_kind, run_input, run_out, run_next, txn,
                   exit_status, failed_at, run_start, last_run, reader_view,
                   db_ratings, db_vorp, vorp_id_seq, ratings_vars, vorp_vars>>

\* _write_to_neon lines 322-338
ConvertRecords ==
    /\ run_pc = "convert"
    /\ run_out' = VorpStatements(run_input.stats, run_input.coefficients,
                                 run_input.season)
    /\ run_pc' = "begin"
    /\ UNCHANGED <<run_no, run_kind, run_input, run_next, txn, exit_status,
                   failed_at, run_start, last_run, reader_view, db_vars,
                   ratings_vars, vorp_vars>>

\* "with engine.begin() as conn": ratings line 53, vorp line 340
Begin ==
    /\ run_pc = "begin"
    /\ txn' = [open |-> TRUE, writes |-> <<>>]
    /\ run_next' = 1
    /\ run_pc' = "write"
    /\ UNCHANGED <<run_no, run_kind, run_input, run_out, exit_status,
                   failed_at, run_start, last_run, reader_view, db_vars,
                   ratings_vars, vorp_vars>>

\* the table as the open transaction sees it
TxnView(committed) == Commit(committed, txn.writes)

\* ratings lines 54-63: one conn.execute(UPSERT_SQL, ...) of the loop
UpsertRatingStatement ==
    /\ run_pc = "write"
    /\ run_kind = "ratings"
    /\ run_next <= Len(run_out)
    /\ LET ur_rec == run_out[run_next]
           ur_new == UpsertRating(TxnView(db_ratings), ur_rec, run_no)
           ur_res == Execute(db_ratings, txn.writes,
                             RatingsKey(ur_rec) :> ur_new[RatingsKey(ur_rec)])
       IN  /\ db_ratings' = ur_res.committed
           /\ txn' = [open |-> TRUE, writes |-> ur_res.pending]
    /\ run_next' = run_next + 1
    /\ UNCHANGED <<run_no, run_kind, run_pc, run_input, run_out, exit_status,
                   failed_at, run_start, last_run, reader_view, db_vorp,
                   vorp_table, vorp_id_seq, ratings_vars, vorp_vars>>

\* vorp line 341: conn.execute(_UPSERT_SQL, records), one record of the batch;
\* the id sequence advances for every attempted insert
UpsertVorpStatement ==
    /\ run_pc = "write"
    /\ run_kind = "vorp"
    /\ run_next <= Len(run_out)
    /\ LET uv_rec == run_out[run_next]
           uv_new == UpsertVorp(TxnView(db_vorp), uv_rec, run_no, vorp_id_seq)
           uv_res == Execute(db_vorp, txn.writes,
                             VorpKey(uv_rec) :> uv_new[VorpKey(uv_rec)])
       IN  /\ db_vorp' = uv_res.committed
           /\ txn' = [open |-> TRUE, writes |-> uv_res.pending]
    /\ vorp_id_seq' = vorp_id_seq + 1
    /\ run_next' = run_next + 1
    /\ UNCHANGED <<run_no, run_kind, run_pc, run_input, run_out, exit_status,
                   failed_at, run_start, last_run, reader_view, db_ratings,
                   vorp_table, ratings_vars, vorp_vars>>

\* leaving the with-block after the last statement
CommitTxn ==
    /\ run_pc = "write"
    /\ run_next > Len(run_out)
    /\ IF run_kind = "vorp"
       THEN /\ db_vorp' = Commit(db_vorp, txn.writes)
            /\ UNCHANGED db_ratings
       ELSE /\ db_ratings' = Commit(db_ratings, txn.writes)
            /\ UNCHANGED db_vorp
    /\ txn' = NoTxn
    /\ last_run' = [last_run EXCEPT ![run_kind] =
                        [input |-> run_input, out |-> run_out]]
    /\ run_pc' = "verify"
    /\ UNCHANGED <<run_no, run_kind, run_input, run_out, run_next,
                   exit_status, failed_at, run_start, reader_view, vorp_table,
                   vorp_id_seq, ratings_vars, vorp_vars>>

\* ratings lines 68-75, vorp lines 369-380 and main lines 27-37: the
\* queries and the printing after the commit
Verify ==
    /\ run_pc = "verify"
    /\ run_pc' = "ended"
    /\ exit_status' = ExitStatus(FALSE)
    /\ UNCHANGED <<run_no, run_kind, run_input, run_out, run_next, txn,
                   failed_at, run_start, last_run, reader_view, db_vars,
                   ratings_vars, vorp_vars>>

\* a statement or query against the database raises (connection lost, sink
\* unreachable): the open transaction, if any, is rolled back on leaving its
\* with-block, and main turns the exception into SystemExit(1)
Raise ==
    /\ run_pc \in {"load", "ddl", "write", "verify"}
    /\ IF run_kind = "vorp"
       THEN /\ db_vorp' = Rollback(db_vorp, txn.writes)
            /\ UNCHANGED db_ratings
       ELSE /\ db_ratings' = Rollback(db_ratings, txn.writes)
            /\ UNCHANGED db_vorp
    /\ txn' = NoTxn
    /\ failed_at' = run_pc
    /\ run_pc' = "ended"
    /\ exit_status' = ExitStatus(TRUE)
    /\ UNCHANGED <<run_no, run_kind, run_input, run_out, run_next, run_start,
                   last_run, reader_view, vorp_table, vorp_id_seq,
                   ratings_vars, vorp_vars>>

\* another connection reads the table the run writes: it sees committed rows
Read ==
    /\ run_pc \in {"write", "verify", "ended"}
    /\ reader_view' = RowsOfRun(Sink)
    /\ reader_view' # reader_view
    /\ UNCHANGED <<run_no, run_kind, run_pc, run_input, run_out, run_next, txn,
                   exit_status, failed_at, run_start, last_run, db_vars,
                   ratings_vars, vorp_vars>>

Next ==
    \/ StartRun
    \/ LoadGames
    \/ ComputeRatings
    \/ LoadStats
    \/ ComputeVorp
    \/ CreateTable
    \/ ConvertRecords
    \/ Begin
    \/ UpsertRatingStatement
    \/ UpsertVorpStatement
    \/ CommitTxn
    \/ Verify
    \/ Raise
    \/ Read

Spec == RunInit /\ [][Next]_vars

(* ---------------------------------------------------------------------- *)
(* Two calls of calculate_ratings whose steps interleave                   *)
(* ---------------------------------------------------------------------- *)

Calls == {1, 2}

\* the games of two seasons over the same three teams
CallTables ==
    [c \in Calls |->
        IF c = 1
        THEN {<<SeasonGame("A", "B", 110, 100, PredictionDay - half_life_days),
                SeasonGame("B", "C", 105, 95, PredictionDay)>>,
              <<SeasonGame("A", "B", 105, 95, PredictionDay),
                SeasonGame("C", "A", 110, 100, PredictionDay - half_life_days)>>}
        ELSE {<<SeasonGame("C", "A", 120, 80, PredictionDay),
                SeasonGame("B", "C", 90, 110, PredictionDay - half_life_days)>>,
              <<SeasonGame("B", "A", 100, 100, PredictionDay - half_life_days),
                SeasonGame("C", "B", 120, 80, PredictionDay)>>}]

\* one set of accumulators for every call
AccSlot_shared(c) == 1

\* ao_wsum, ad_wsum and wt are locals of the call (lines 102-104)
AccSlot(c) == c

CallsInit ==
    /\ k_params = ModuleState
    /\ k_input \in [Calls -> UNION {CallTables[c] : c \in Calls}]
    /\ \A c \in Calls : k_input[c] \in CallTables[c]
    /\ k_date \in [Calls -> {<<>>, <<PredictionDay>>}]
    /\ k_pc = [c \in Calls |-> "start"]
    /\ k_df = [c \in Calls |-> <<>>]
    /\ k_ratings = [c \in Calls |-> <<>>]
    /\ k_acc = [c \in Calls |-> <<>>]
    /\ k_round = [c \in Calls |-> 0]
    /\ k_next = [c \in Calls |-> 1]
    /\ k_results = [c \in Calls |-> <<>>]
    /\ k_mixed = [c \in Calls |-> FALSE]
    /\ games_df = <<>>
    /\ prediction_date = <<>>
    /\ r_pc = "idle"
    /\ ratings = <<>>
    /\ round = 0
    /\ results = <<>>
    /\ WeightIdle
    /\ VorpIdle
    /\ RunIdle

\* a step of call c: every other call that has begun and not returned has
\* now seen a step of another call
StepOf(c) ==
    /\ k_mixed' = [d \in Calls |->
                      \/ k_mixed[d]
                      \/ d # c /\ k_pc[d] \notin {"start", "done"}]
    /\ UNCHANGED <<k_params, k_input, k_date, games_df, prediction_date, r_pc,
                   ratings, round, results, weight_vars, vorp_vars, db_vars,
                   run_vars>>

\* line 58: df = games_df.copy()
K_Copy(c) ==
    /\ k_pc[c] = "start"
    /\ k_df' = [k_df EXCEPT ![c] = k_input[c]]
    /\ k_pc' = [k_pc EXCEPT ![c] = "init"]
    /\ StepOf(c)
    /\ UNCHANGED <<k_ratings, k_acc, k_round, k_next, k_results>>

\* lines 59-99
K_Initialize(c) ==
    /\ k_pc[c] = "init"
    /\ k_ratings' = [k_ratings EXCEPT ![c] = InitialRatings(k_df[c], k_date[c])]
    /\ k_pc' = [k_pc EXCEPT ![c] = "iterate"]
    /\ StepOf(c)
    /\ UNCHANGED <<k_df, k_acc, k_round, k_next, k_results>>

\* lines 101-104: a round begins with fresh accumulators
K_StartRound(c) ==
    /\ k_pc[c] = "iterate"
    /\ k_round[c] < k_params.iterations
    /\ k_acc' = [k_acc EXCEPT ![AccSlot(c)] = ZeroAccumulators(DOMAIN k_ratings[c])]
    /\ k_next' = [k_next EXCEPT ![c] = 1]
    /\ k_pc' = [k_pc EXCEPT ![c] = "pass"]
    /\ StepOf(c)
    /\ UNCHANGED <<k_df, k_ratings, k_round, k_results>>

\* lines 105-116: one row of df.iterrows()
K_Game(c) ==
    /\ k_pc[c] = "pass"
    /\ k_next[c] <= Len(k_df[c])
    /\ k_acc' = [k_acc EXCEPT ![AccSlot(c)] =
                    AccumulateGame(@, k_df[c][k_next[c]],
                                   weight(k_df[c][k_next[c]], k_date[c]),
                                   k_ratings[c])]
    /\ k_next' = [k_next EXCEPT ![c] = @ + 1]
    /\ StepOf(c)
    /\ UNCHANGED <<k_pc, k_df, k_ratings, k_round, k_results>>

\* lines 117-120
K_Replace(c) ==
    /\ k_pc[c] = "pass"
    /\ k_next[c] > Len(k_df[c])
    /\ k_ratings' = [k_ratings EXCEPT ![c] = ReplaceRatings(@, k_acc[AccSlot(c)])]
    /\ k_round' = [k_round EXCEPT ![c] = @ + 1]
    /\ k_pc' = [k_pc EXCEPT ![c] = "iterate"]
    /\ StepOf(c)
    /\ UNCHANGED <<k_df, k_acc, k_next, k_results>>

\* lines 122-129
K_Shrink(c) ==
    /\ k_pc[c] = "iterate"
    /\ k_round[c] = k_params.iterations
    /\ k_ratings' = [k_ratings EXCEPT ![c] = Shrinkage(@)]
    /\ k_pc' = [k_pc EXCEPT ![c] = "emit"]
    /\ StepOf(c)
    /\ UNCHANGED <<k_df, k_acc, k_round, k_next, k_results>>

\* lines 131-140
K_Return(c) ==
    /\ k_pc[c] = "emit"
    /\ k_results' = [k_results EXCEPT ![c] = Results(k_ratings[c], k_df[c])]
    /\ k_pc' = [k_pc EXCEPT ![c] = "done"]
    /\ StepOf(c)
    /\ UNCHANGED <<k_df, k_ratings, k_acc, k_round, k_next>>

K_CopyStep == \E c \in Calls : K_Copy(c)

K_InitializeStep == \E c \in Calls : K_Initialize(c)

K_StartRoundStep == \E c \in Calls : K_StartRound(c)

K_GameStep == \E c \in Calls : K_Game(c)

K_ReplaceStep == \E c \in Calls : K_Replace(c)

K_ShrinkStep == \E c \in Calls : K_Shrink(c)

K_ReturnStep == \E c \in Calls : K_Return(c)

CallsNext ==
    \/ K_CopyStep
    \/ K_InitializeStep
    \/ K_StartRoundStep
    \/ K_GameStep
    \/ K_ReplaceStep
    \/ K_ShrinkStep
    \/ K_ReturnStep

SpecCalls == CallsInit /\ [][CallsNext]_vars

(* ---------------------------------------------------------------------- *)
(* Properties                                                              *)
(* ---------------------------------------------------------------------- *)

\* calculate_ratings has returned for the toy league: two games, both A at
\* home against B, 110-100 and 105-95, prediction_date left at its default
ToyLeagueReturned ==
    /\ r_pc = "done"
    /\ prediction_date = <<>>
    /\ Len(games_df) = 2
    /\ \A i \in 1..2 : games_df[i].home_team = "A" /\ games_df[i].away_team = "B"
    /\ {<<games_df[i].home_score, games_df[i].away_score>> : i \in 1..2}
         = {<<110, 100>>, <<105, 95>>}

ResultOf(team) == results[CHOOSE i \in 1..Len(results) : results[i].team = team]

\* C1: for the two-team toy league (A beats B at home 110-100 and 105-95,
\* default parameters) the returned rows have A's adj_o strictly above B's,
\* A's adj_em strictly positive and B's adj_em strictly negative.
C1_ToyLeagueOrdering ==
    ToyLeagueReturned =>
        /\ Gt(ResultOf("A").adj_o, ResultOf("B").adj_o)
        /\ Gt(ResultOf("A").adj_em, Zero)
        /\ Lt(ResultOf("B").adj_em, Zero)

\* the estimate of lines 144-145 before the floor, summed over the qualifying
\* rows of one (team, game) of the stats table
RawPossessions(team, game) ==
    LET rp_rows == {q \in QualifyingRows(v_games, PlayersTable, GameDate, v_season) :
                      q.team_abv = team /\ q.game_id = game}
        rp_seq == SeqOf(rp_rows)
        rp_fga == SumRat([i \in 1..Len(rp_seq) |-> rp_seq[i].stats["field_goal_attempts"]])
        rp_fta == SumRat([i \in 1..Len(rp_seq) |-> rp_seq[i].stats["free_throw_attempts"]])
        rp_tov == SumRat([i \in 1..Len(rp_seq) |-> rp_seq[i].stats["turnovers"]])
        rp_orb == SumRat([i \in 1..Len(rp_seq) |-> rp_seq[i].stats["offensive_rebounds"]])
    IN  Sub(Add(Add(rp_fga, Mul(Rat(44, 100), rp_fta)), rp_tov), rp_orb)

\* C2: in every row _load_game_data returns, team_poss is
\* max(1, sum FGA + 0.44 * sum FTA + sum TOV - sum ORB) over the qualifying
\* rows of that (team, game), and so is at least 1.
C2_PossessionsFloored ==
    v_pc # "start" =>
        \A r \in v_df :
            /\ r.team_poss = (IF Lt(RawPossessions(r.team_abv, r.game_id), One)
                              THEN One
                              ELSE RawPossessions(r.team_abv, r.game_id))
            /\ Le(One, r.team_poss)

\* a (team, game) of two rows whose offensive rebounds exceed the other terms
C2_Witness ==
    /\ v_pc = "bpm"
    /\ \E r \in v_df :
          /\ Lt(RawPossessions(r.team_abv, r.game_id), Zero)
          /\ Cardinality({q \in v_df : q.team_abv = r.team_abv
                                        /\ q.game_id = r.game_id}) = 2
          /\ r.team_poss = One

\* C3: in every row _calculate_vorp returns, pct_minutes is
\* min(1, total_minutes / (team_total_minutes / 5)), and so is at most 1.
C3_ShareCapped ==
    \A row \in v_vorp :
        /\ row.pct_minutes =
              (IF Lt(One, Div(row.total_minutes, Div(row.team_total_minutes, Num(5))))
               THEN One
               ELSE Div(row.total_minutes, Div(row.team_total_minutes, Num(5))))
        /\ Le(row.pct_minutes, One)

\* a player whose minutes exceed one fifth of the team's total
C3_Witness ==
    /\ v_pc = "write"
    /\ \E row \in v_vorp :
          /\ Gt(Mul(Num(5), row.total_minutes), row.team_total_minutes)
          /\ row.pct_minutes = One

\* C4: a team with zero games keeps adj_o = adj_d = league average through
\* initialisation, every round and the shrinkage, and returns adj_em = 0.
C4_ZeroGamesLeagueAverage ==
    /\ \A t \in DOMAIN ratings :
          ratings[t].games = 0 =>
              /\ ratings[t].adj_o = LEAGUE_AVG_EFFICIENCY
              /\ ratings[t].adj_d = LEAGUE_AVG_EFFICIENCY
    /\ \A i \in 1..Len(results) :
          results[i].games = 0 => results[i].adj_em = Zero

\* C5: a row whose avg_bpm equals the replacement level has vorp exactly 0,
\* whatever its pct_minutes and team_games.
C5_ReplacementLevelIsZero ==
    \A row \in v_vorp : row.avg_bpm = REPLACEMENT_LEVEL => row.vorp = Zero

\* a replacement-level row with a share below 1
C5_Witness ==
    /\ v_pc = "write"
    /\ \E row \in v_vorp :
          row.avg_bpm = REPLACEMENT_LEVEL /\ Lt(row.pct_minutes, One)

\* the row is its player's only game row and each of its per-100 rates that
\* has a league average equals it
LeagueAverageSingleGame(r) ==
    /\ Cardinality({q \in v_df : q.player_id = r.player_id}) = 1
    /\ \A c \in DOMAIN LeagueAverages : r.rates[c] = LeagueAverages[c]

\* the offset the coefficient set holds for a position label
OffsetKey ==
    [PG |-> "pos_PG", SG |-> "pos_SG", SF |-> "pos_SF", PF |-> "pos_PF",
     C |-> "pos_C", G |-> "pos_G", F |-> "pos_F"]

OffsetFor(position, coefficients) ==
    IF position \in DOMAIN OffsetKey /\ OffsetKey[position] \in DOMAIN coefficients
    THEN coefficients[OffsetKey[position]]
    ELSE Zero

\* the offset for the labels line 212 lists
ListedOffsetFor(position, coefficients) ==
    IF position \in {"PG", "SG", "PF", "C", "G"}
    THEN OffsetFor(position, coefficients)
    ELSE Zero

\* C7 as stated: for a single-game player at the league-average rates,
\* game_bpm is the intercept plus the offset of the player's position, for
\* every coefficient set and team result.
C7_InterceptPlusOffset ==
    v_pc \in {"aggregate", "vorp", "write", "done", "raised"} =>
        \A r \in v_df :
            LeagueAverageSingleGame(r) =>
                r.game_bpm = Add(v_coefficients["intercept"],
                                 OffsetFor(r.position, v_coefficients))

\* C7: for a single-game player at the league-average rates, game_bpm is the
\* intercept, plus the offset of the player's position when the position is
\* one of PG, SG, PF, C, G and the coefficient set holds it, plus the
\* team-context weight (0 when absent) times the team's net rating.
C7_InterceptOffsetContext ==
    v_pc \in {"aggregate", "vorp", "write", "done", "raised"} =>
        \A r \in v_df :
            LeagueAverageSingleGame(r) =>
                r.game_bpm =
                    Add(Add(v_coefficients["intercept"],
                            ListedOffsetFor(r.position, v_coefficients)),
                        Mul(IF "team_net_rtg" \in DOMAIN v_coefficients
                            THEN v_coefficients["team_net_rtg"] ELSE Zero,
                            r.team_net_rtg))

\* such a row of a point guard, scored with an offset and a team-context
\* weight, on a team with a non-zero net rating
C7_Witness ==
    /\ v_pc = "aggregate"
    /\ \E r \in v_df :
          /\ LeagueAverageSingleGame(r)
          /\ r.position = "PG"
          /\ "pos_PG" \in DOMAIN v_coefficients
          /\ "team_net_rtg" \in DOMAIN v_coefficients
          /\ r.team_net_rtg # Zero

\* the table the current run writes, as it was when the run started
StartSink == IF run_kind = "vorp" THEN run_start.db_vorp ELSE run_start.db_ratings

\* the run's transaction has committed
Committed ==
    \/ run_pc = "verify"
    \/ run_pc = "ended" /\ failed_at \in {"", "verify"} /\ run_out # <<>>

\* a table without the timestamp column
ValueFields(table) ==
    [k \in DOMAIN table |->
        [f \in DOMAIN table[k] \ {"calculated_at"} |-> table[k][f]]]

\* C6: a run that commits on the input (records, date, arguments) of the
\* last committed run of the same pipeline hands the same records to the
\* upsert, and leaves every key and value field of the sink as that run
\* left them.
C6_RerunIsIdempotent ==
    (Committed /\ run_input = run_start.last_run[run_kind].input) =>
        /\ run_out = run_start.last_run[run_kind].out
        /\ ValueFields(Sink) = ValueFields(StartSink)

\* a second AdjEM run on the three-team input of the first
C6_Witness ==
    /\ Committed
    /\ run_no = 2
    /\ run_input = run_start.last_run[run_kind].input
    /\ run_kind = "ratings"
    /\ Len(run_out) = 3
    /\ DOMAIN StartSink = RunKeys

\* C8: at every point of a run, and after a failure in the middle of the
\* write, the committed sink (what any reader sees) holds none of the run's
\* rows or all of them.
C8_AllOrNothing ==
    /\ RowsOfRun(Sink) \in {{}, RunKeys}
    /\ reader_view \in {{}, RunKeys}

\* the write failed after its first statement and before its last
C8_Witness ==
    /\ run_pc = "ended"
    /\ failed_at = "write"
    /\ 1 < run_next
    /\ run_next <= Len(run_out)
    /\ RowsOfRun(Sink) = {}

\* the steps up to and including the write
StepsBeforeCommit == {"load", "compute", "ddl", "write"}

\* C9 as stated: a run that raises in one of its steps ends with status 1 and
\* nothing it wrote to the database is committed; a run without error ends
\* with status 0.
C9_FailureCommitsNothing ==
    run_pc = "ended" =>
        /\ failed_at \in StepsBeforeCommit =>
              /\ exit_status = 1
              /\ Sink = StartSink
              /\ vorp_table # run_no
        /\ failed_at = "" => exit_status = 0

\* C9: a run that raises while loading, computing or writing ends with
\* status 1 and none of its rows is committed (the table and indexes a VORP
\* run creates before its rows may be); a run that raises after its commit
\* ends with status 1; a run without error ends with status 0.
C9_FailureCommitsNoRow ==
    run_pc = "ended" =>
        /\ failed_at \in StepsBeforeCommit =>
              /\ exit_status = 1
              /\ Sink = StartSink
              /\ RowsOfRun(Sink) = {}
        /\ failed_at = "verify" => exit_status = 1
        /\ failed_at = "" => exit_status = 0

\* a VORP run on a database without the table fails in the middle of its write
C9_Witness ==
    /\ run_pc = "ended"
    /\ run_kind = "vorp"
    /\ failed_at = "write"
    /\ run_next > 1
    /\ vorp_table = run_no
    /\ exit_status = 1

\* the season of a key of the current run's table
KeySeason(k) == IF run_kind = "vorp" THEN k[3] ELSE k[2]

\* C10 as stated: after a successful run the sink's rows of the seasons the
\* run computed are exactly the rows the run computed.
C10_OnlyThisRunsRows ==
    Committed =>
        {k \in DOMAIN Sink : KeySeason(k) \in {KeySeason(j) : j \in RunKeys}}
            = RunKeys

\* C10: after a successful run every row the run computed is in the sink
\* with the run's values, and every other row is as it was before the run:
\* rows of earlier runs that the run did not produce remain.
C10_UpsertKeepsOtherRows ==
    Committed =>
        /\ \A i \in DOMAIN run_out :
              /\ StatementKey(run_out[i]) \in DOMAIN Sink
              /\ Sink[StatementKey(run_out[i])].calculated_at = run_no
              /\ \A f \in DOMAIN Sink[StatementKey(run_out[i])]
                            \ {"calculated_at", "id"} :
                    Sink[StatementKey(run_out[i])][f] = run_out[i][f]
        /\ \A k \in DOMAIN StartSink \ RunKeys :
              k \in DOMAIN Sink /\ Sink[k] = StartSink[k]
        /\ DOMAIN Sink = DOMAIN StartSink \cup RunKeys

\* a committed run that leaves a row of an earlier run in its season
C10_Witness ==
    /\ Committed
    /\ \E k \in DOMAIN StartSink \ RunKeys :
          KeySeason(k) \in {KeySeason(j) : j \in RunKeys}

\* the features _apply_bpm computes that the coefficient set has no weight for
MissingFeatures == FeatureKeys \ DOMAIN v_coefficients

\* a printed line that names a missing coefficient
IsGapWarning(line) == line \in {"warning: missing coefficient", "configuration gap"}

\* C11: when _apply_bpm has scored rows with a coefficient set that lacks a
\* feature's weight, the feature adds nothing to game_bpm_raw and the run has
\* printed a warning naming the gap.
C11_MissingCoefficientWarned ==
    (v_pc \in {"aggregate", "vorp", "write", "done"} /\ v_df # {}
        /\ MissingFeatures # {}) =>
        /\ \A r \in v_df :
              r.game_bpm_raw =
                  Add(Add(v_coefficients["intercept"],
                          SumOver(FeatureKeys \ MissingFeatures,
                                  LAMBDA k : Mul(v_coefficients[k],
                                                 Features(r, LeagueAverages)[k]))),
                      PositionOffset(r.position, v_coefficients))
        /\ \E i \in 1..Len(v_log) : IsGapWarning(v_log[i])

\* C12: a row whose avg_bpm is undefined has an undefined vorp, not 0, in
\* the frame _calculate_vorp returns and in the record handed to the upsert,
\* and building it raises nothing; a row whose avg_bpm is defined has a
\* defined vorp in both.
C12_UndefinedImpactUndefinedVorp ==
    /\ \A row \in v_vorp : IsNaN(row.vorp) <=> IsNaN(row.avg_bpm)
    /\ v_pc = "done" =>
          \A row \in v_vorp :
              \E rec \in v_records :
                  /\ rec.player_id = row.player_id
                  /\ rec.team = row.team_abv
                  /\ rec.season = row.season
                  /\ IsNaN(rec.vorp) <=> IsNaN(row.avg_bpm)
                  /\ IsNaN(row.avg_bpm) => rec.vorp # Zero
    /\ v_pc = "raised" => v_ps = {}

\* the records hold a row with an undefined average impact
C12_Witness ==
    /\ v_pc = "done"
    /\ \E row \in v_vorp : IsNaN(row.avg_bpm)
    /\ \E rec \in v_records : IsNaN(rec.estimated_bpm) /\ IsNaN(rec.vorp)

\* the run's query finds no game: no completed game of the season, or no
\* row of nba_player_game_stats in the season asked for
NoData ==
    IF run_kind = "vorp"
    THEN \A r \in run_input.stats :
            /\ run_input.season # <<>>
            /\ _game_date_to_season(GameDate[r.game_id]) # run_input.season[1]
    ELSE run_kind = "ratings" /\ run_input.games = <<>>

\* C13: a run whose query finds no game, and whose database calls all
\* succeed, ends without an exception (status 0) and commits no row.
C13_NoDataEndsNormally ==
    (run_pc = "ended" /\ NoData /\ failed_at # "load") =>
        /\ failed_at = ""
        /\ exit_status = 0
        /\ Sink = StartSink

\* C14: when calculate_ratings has returned, for every games table, a 0-0
\* game included, the possessions each game was divided by are non-zero, and
\* every returned adj_o, adj_d and adj_em is a defined number.
C14_ZeroPossessionsRecovered ==
    r_pc = "done" =>
        /\ \A i \in 1..Len(games_df) : possessions(games_df[i]) # Zero
        /\ \A i \in 1..Len(results) :
              /\ ~IsNaN(results[i].adj_o)
              /\ ~IsNaN(results[i].adj_d)
              /\ ~IsNaN(results[i].adj_em)

\* the qualifying game rows of a (player, team, season)
GroupRows(df, player, team, season) ==
    {r \in df : r.player_id = player /\ r.team_abv = team /\ r.season = season}

\* the teams a player has qualifying game rows for within a season
TeamsOf(df, player, season) ==
    {r.team_abv : r \in {x \in df : x.player_id = player /\ x.season = season}}

\* the output rows of a player within a season
OutputRows(out, player, season) ==
    {x \in out : x.player_id = player /\ x.season = season}

\* each output row aggregates the game rows of its own team only
OwnTeamRowsOnly(out, df) ==
    \A x \in out :
        /\ x.games_played =
              Cardinality(GroupRows(df, x.player_id, x.team_abv, x.season))
        /\ x.total_minutes =
              SumOver(GroupRows(df, x.player_id, x.team_abv, x.season),
                      LAMBDA r : r.minutes_played)

\* C15: the VORP output holds at most one row per (player, team, season); a
\* player with qualifying game rows for k teams within a season has exactly
\* k rows, one per team, each aggregating only that team's game rows.
C15_OneRowPerPlayerTeamSeason ==
    v_pc \in {"write", "done"} =>
        /\ \A a, b \in v_vorp :
              (a.player_id = b.player_id /\ a.team_abv = b.team_abv
               /\ a.season = b.season) => a = b
        /\ \A r \in v_df :
              {x.team_abv : x \in OutputRows(v_vorp, r.player_id, r.season)}
                  = TeamsOf(v_df, r.player_id, r.season)
        /\ OwnTeamRowsOnly(v_vorp, v_df)

\* C15 for the players that have a row in nba_players
C15_ListedPlayers ==
    v_pc \in {"write", "done"} =>
        /\ \A a, b \in v_vorp :
              (a.player_id = b.player_id /\ a.team_abv = b.team_abv
               /\ a.season = b.season) => a = b
        /\ \A r \in {x \in v_df : x.player_name # Null} :
              {x.team_abv : x \in OutputRows(v_vorp, r.player_id, r.season)}
                  = TeamsOf(v_df, r.player_id, r.season)
        /\ OwnTeamRowsOnly(v_vorp, v_df)

\* a player of two teams within one season has reached the output
C15_TwoTeams ==
    /\ v_pc = "done"
    /\ \E r \in v_df : Cardinality(TeamsOf(v_df, r.player_id, r.season)) = 2

\* population variance of a list of weights: (n * sum w^2 - (sum w)^2) / n^2
Variance(w) ==
    Div(Sub(Mul(Num(Len(w)), Dot(w, w)), Mul(SumRat(w), SumRat(w))),
        Num(Len(w) * Len(w)))

\* the games have at least two distinct ages and none is in the future
TwoDistinctAges(ages) ==
    /\ \A i \in 1..Len(ages) : ages[i] >= 0
    /\ Cardinality(Range(ages)) >= 2

\* two games: one on the prediction date, one earlier
TodayAndEarlier(ages) ==
    /\ Len(ages) = 2
    /\ 0 \in Range(ages)
    /\ \E i \in 1..2 : ages[i] > 0

EarlierAge(ages) == CHOOSE d \in Range(ages) : d > 0

\* C16 as stated: for games with at least two distinct non-negative ages and
\* a fixed floor, the variance of the weights at a longer half-life is
\* strictly below the variance at the shorter one.
C16_VarianceStrictlyDecreases ==
    (w_pc = "longer" /\ TwoDistinctAges(w_ages)) =>
        Lt(Variance(w_weights), Variance(w_shorter))

\* C16, amended: with a fixed floor, a longer half-life lowers the weight of
\* no game dated on or before the prediction date; for two games, one on the
\* prediction date and one earlier, the variance of the two weights does not
\* increase, and it strictly decreases when 0.5^(days / half_life) of the
\* earlier game at the longer half-life is above the floor.
C16_TwoGameVarianceDecreases ==
    w_pc = "longer" =>
        /\ \A i \in 1..Len(w_ages) :
              w_ages[i] >= 0 => Le(w_shorter[i], w_weights[i])
        /\ TodayAndEarlier(w_ages) =>
              /\ Le(Variance(w_weights), Variance(w_shorter))
              /\ Gt(HalfPow(EarlierAge(w_ages), w_half_life), w_floor) =>
                    Lt(Variance(w_weights), Variance(w_shorter))

\* two such games weighed at both half-lives, the earlier one above the floor
\* at the longer half-life and at the floor at the shorter one
C16_Witness ==
    /\ w_pc = "longer"
    /\ TodayAndEarlier(w_ages)
    /\ Gt(HalfPow(EarlierAge(w_ages), w_half_life), w_floor)
    /\ \E i \in 1..2 : w_ages[i] > 0 /\ w_shorter[i] = w_floor

Orders(n) == {p \in [1..n -> 1..n] : \A i, j \in 1..n : p[i] = p[j] => i = j}

Reordered(df, p) == [i \in 1..Len(df) |-> df[p[i]]]

\* lines 108-111 for one game, read from the ratings rt
HomeAdjusted(g, rt) ==
    Add(Sub(home_off_eff(g),
            Add(LEAGUE_AVG_EFFICIENCY,
                Sub(rt[g.away_team].adj_d, LEAGUE_AVG_EFFICIENCY))),
        LEAGUE_AVG_EFFICIENCY)

AwayAdjusted(g, rt) ==
    Add(Sub(away_off_eff(g),
            Add(LEAGUE_AVG_EFFICIENCY,
                Sub(rt[g.home_team].adj_d, LEAGUE_AVG_EFFICIENCY))),
        LEAGUE_AVG_EFFICIENCY)

\* the rating of team t after a round, written as sums over the games of t
\* with every opponent rating read from rt, the ratings at the start of the
\* round
FromRoundStart(rt, df, pdate, t) ==
    LET rs_home == {i \in 1..Len(df) : df[i].home_team = t}
        rs_away == {i \in 1..Len(df) : df[i].away_team = t}
        rs_wt == Add(SumOver(rs_home, LAMBDA i : weight(df[i], pdate)),
                     SumOver(rs_away, LAMBDA i : weight(df[i], pdate)))
        rs_ao == Add(SumOver(rs_home, LAMBDA i :
                        Mul(HomeAdjusted(df[i], rt), weight(df[i], pdate))),
                     SumOver(rs_away, LAMBDA i :
                        Mul(AwayAdjusted(df[i], rt), weight(df[i], pdate))))
        rs_ad == Add(SumOver(rs_home, LAMBDA i :
                        Mul(AwayAdjusted(df[i], rt), weight(df[i], pdate))),
                     SumOver(rs_away, LAMBDA i :
                        Mul(HomeAdjusted(df[i], rt), weight(df[i], pdate))))
    IN  IF Gt(rs_wt, Zero)
        THEN [rt[t] EXCEPT !.adj_o = Div(rs_ao, rs_wt), !.adj_d = Div(rs_ad, rs_wt)]
        ELSE rt[t]

\* C18: shrinkage and the return come after exactly 5 rounds; a round gives
\* every team the weighted means of its games computed from the ratings at
\* the start of the round, with accumulators that start at zero, and gives
\* the same ratings whatever the order in which the games are visited.
C18_RoundsReadRoundStart ==
    [][/\ r_pc' \in {"emit", "done"} => round' = iterations
       /\ R_Round =>
             /\ \A t \in DOMAIN ratings :
                   ratings'[t] = FromRoundStart(ratings, games_df,
                                                prediction_date, t)
             /\ \A p \in Orders(Len(games_df)) :
                   IterateRound(ratings, Reordered(games_df, p),
                                prediction_date) = ratings']_vars

\* five rounds have run over two different games that share a team, and the
\* rounds changed the ratings
C18_Witness ==
    /\ r_pc = "iterate"
    /\ round = iterations
    /\ Len(games_df) = 2
    /\ games_df[1].home_team # games_df[2].home_team
    /\ {games_df[1].home_team, games_df[1].away_team}
          \cap {games_df[2].home_team, games_df[2].away_team} # {}
    /\ \A i \in 1..2 : games_df[i].home_score > 0
    /\ games_df[1].home_score # games_df[2].home_score
    /\ prediction_date # <<>>
    /\ ratings # InitialRatings(games_df, prediction_date)

\* C19: the step after the last round changes exactly the teams with fewer
\* than 5 games: their adj_o and adj_d become blend * rating +
\* (1 - blend) * 110 with blend = 0.5 * (g / 5); a team with 5 games or more
\* keeps its iterated ratings.
C19_ShrinkageBelowFiveGames ==
    [][R_Shrink =>
          /\ round = 5
          /\ DOMAIN ratings' = DOMAIN ratings
          /\ \A t \in DOMAIN ratings :
                LET c19_g == ratings[t].games
                    c19_blend == Mul(Rat(1, 2), Rat(c19_g, 5))
                IN  IF c19_g < 5
                    THEN ratings'[t] =
                           [ratings[t] EXCEPT
                              !.adj_o = Add(Mul(c19_blend, ratings[t].adj_o),
                                            Mul(Sub(One, c19_blend), Num(110))),
                              !.adj_d = Add(Mul(c19_blend, ratings[t].adj_d),
                                            Mul(Sub(One, c19_blend), Num(110)))]
                    ELSE ratings'[t] = ratings[t]]_vars

\* shrinkage has been applied to a table in which one team is below 5 games
\* and one is not, and neither has an offensive rating at the league average
C19_Witness ==
    /\ r_pc = "emit"
    /\ \E t, u \in DOMAIN ratings :
          /\ ratings[t].games < 5
          /\ ratings[u].games >= 5
          /\ ~IsNaN(ratings[t].adj_o)
          /\ ratings[t].adj_o # Num(110)
          /\ ratings[u].adj_o # Num(110)

TeamIndex(t) == CHOOSE i \in 1..Len(TeamOrder) : TeamOrder[i] = t

TeamsIn(df) ==
    {df[i].home_team : i \in 1..Len(df)} \cup {df[i].away_team : i \in 1..Len(df)}

Ordered(rows, df) ==
    /\ \A i, j \in 1..Len(rows) :
          i < j => ~Lt(rows[i].adj_em, rows[j].adj_em)
    /\ {rows[i].team : i \in 1..Len(rows)} = TeamsIn(df)
    /\ Len(rows) = Cardinality(TeamsIn(df))
    /\ \A i, j \in 1..Len(rows) :
          (i < j /\ rows[i].adj_em = rows[j].adj_em) =>
              TeamIndex(rows[i].team) < TeamIndex(rows[j].team)

\* C20: in the returned list no row is followed by a row with a greater
\* adj_em, every team of the games table appears exactly once, and rows with
\* equal adj_em are in ascending team-name order.
C20_ResultsOrdered == r_pc = "done" => Ordered(results, games_df)

\* the same for the tables without a game that ended 0-0
C20_OrderedWithoutScorelessGame ==
    (r_pc = "done" /\ \A i \in 1..Len(games_df) : possessions(games_df[i]) # Zero)
        => Ordered(results, games_df)

\* a returned list with two teams level on a defined adj_em
C20_TieReturned ==
    /\ r_pc = "done"
    /\ \E i, j \in 1..Len(results) :
          /\ i < j
          /\ ~IsNaN(results[i].adj_em)
          /\ results[i].adj_em = results[j].adj_em

\* |x - y| <= tol
Within(x, y, tol) == Le(Sub(x, y), tol) /\ Le(Sub(y, x), tol)

\* C21 as stated: in every returned row adj_em equals adj_o - adj_d of the
\* row's own two-decimal values.
C21_NetIsDifferenceOfEmitted ==
    r_pc = "done" =>
        \A i \in 1..Len(results) :
            results[i].adj_em = Sub(results[i].adj_o, results[i].adj_d)

\* C21, amended: in every returned row adj_em is the difference of the
\* team's unrounded adj_o and adj_d, rounded to two decimals; where it is
\* defined it is within 0.01 of the difference of the row's two-decimal
\* adj_o and adj_d.
C21_NetIsRoundedDifference ==
    r_pc = "done" =>
        \A i \in 1..Len(results) :
            /\ results[i].adj_em =
                 Round2(Sub(ratings[results[i].team].adj_o,
                            ratings[results[i].team].adj_d))
            /\ ~IsNaN(results[i].adj_em) =>
                 Within(results[i].adj_em,
                        Sub(results[i].adj_o, results[i].adj_d), Rat(1, 100))

\* a returned row whose adj_em is not the difference of its two-decimal
\* adj_o and adj_d
C21_Witness ==
    /\ r_pc = "done"
    /\ \E i \in 1..Len(results) :
          /\ ~IsNaN(results[i].adj_em)
          /\ results[i].adj_em # Sub(results[i].adj_o, results[i].adj_d)

\* the records with defined, positive minutes
PositiveMinutes(games) ==
    {r \in games : ~IsNaN(r.minutes_played) /\ Gt(r.minutes_played, Zero)}

\* the frame after _load_game_data and after _apply_bpm, computed from the
\* records with positive minutes alone
LoadedFromPositive ==
    _load_game_data(PositiveMinutes(v_games), PlayersTable, GameDate, v_season)

ScoredFromPositive ==
    _apply_bpm(LoadedFromPositive, v_coefficients, LeagueAverages)

\* C22: a record with null or non-positive minutes has no row in the frame,
\* and the frame, its team possessions and minutes, the rates and scores, the
\* player-season rows (games played, total minutes) and the team-season rows
\* (team games, team minutes) are what they would be without such records.
C22_NonPositiveMinutesExcluded ==
    /\ \A r \in v_df : ~IsNaN(r.minutes_played) /\ Gt(r.minutes_played, Zero)
    /\ v_pc = "bpm" => v_df = LoadedFromPositive
    /\ v_pc \in {"aggregate", "vorp", "raised", "write", "done"} =>
          v_df = ScoredFromPositive
    /\ v_pc \in {"vorp", "raised", "write", "done"} =>
          /\ v_ps = _aggregate_ps(v_df)
          /\ v_ts = _aggregate_ts(v_df)

\* a team's game with one record played and one record of null or
\* non-positive minutes has gone through the pipeline
C22_Witness ==
    /\ v_pc = "done"
    /\ \E r, q \in v_games :
          /\ r.team_abv = q.team_abv
          /\ r.game_id = q.game_id
          /\ Gt(r.minutes_played, Zero)
          /\ ~Gt(q.minutes_played, Zero)
          /\ q.stats["field_goal_attempts"] # Zero
          /\ \E x \in v_df : x.player_id = r.player_id

\* C23: in every row of the frame team_poss * minutes_played is positive,
\* there are 14 rate columns, and each of them is its raw stat times
\* (20 * team_min) / (team_poss * minutes_played).
C23_Per100Rates ==
    v_pc # "start" =>
        \A r \in v_df :
            /\ Gt(Mul(r.team_poss, r.minutes_played), Zero)
            /\ Cardinality(DOMAIN r.rates) = 14
            /\ \A c \in DOMAIN r.rates :
                  r.rates[c] =
                    Mul(r.stats[RawOf[c]],
                        Div(Mul(Num(20), r.team_min),
                            Mul(r.team_poss, r.minutes_played)))

\* rates computed for a player who shared the team's minutes with a team-mate
C23_Witness ==
    /\ v_pc = "bpm"
    /\ \E r \in v_df :
          /\ r.team_min # r.minutes_played
          /\ Gt(r.team_min, One)
          /\ Gt(r.team_poss, One)
          /\ r.rates["pts_100"] # Zero

\* C24: for each (player, team, season) row of _aggregate, games_played is
\* the number of the group's game rows, total_minutes the sum of their
\* minutes and avg_bpm = sum(game_bpm * minutes) / sum(minutes); where the
\* group's scores are defined, avg_bpm is at least the smallest and at most
\* the largest of them.
C24_GroupAggregates ==
    v_pc \in {"vorp", "raised", "write", "done"} =>
        \A p \in v_ps :
            LET c24_rows == GroupRows(v_df, p.player_id, p.team_abv, p.season)
            IN  /\ p.games_played = Cardinality(c24_rows)
                /\ p.total_minutes =
                     SumOver(c24_rows, LAMBDA r : r.minutes_played)
                /\ p.avg_bpm =
                     Div(SumOver(c24_rows,
                                 LAMBDA r : Mul(r.game_bpm, r.minutes_played)),
                         SumOver(c24_rows, LAMBDA r : r.minutes_played))
                /\ (\A r \in c24_rows : ~IsNaN(r.game_bpm)) =>
                      /\ \E r \in c24_rows : Le(r.game_bpm, p.avg_bpm)
                      /\ \E r \in c24_rows : Le(p.avg_bpm, r.game_bpm)

\* a group of two games with different minutes and different scores, its
\* average strictly between the two
C24_Witness ==
    /\ v_pc = "done"
    /\ \E p \in v_ps :
          \E r, q \in GroupRows(v_df, p.player_id, p.team_abv, p.season) :
              /\ p.games_played = 2
              /\ r.minutes_played # q.minutes_played
              /\ Lt(r.game_bpm, p.avg_bpm)
              /\ Lt(p.avg_bpm, q.game_bpm)

\* the distinct games of a (team, season) among the qualifying rows
TeamGames(df, team, season) ==
    {r.game_id : r \in {x \in df : x.team_abv = team /\ x.season = season}}

\* C25: in every output row with a defined avg_bpm, team_games is the number
\* of distinct games of the row's (team, season) among the qualifying rows,
\* vorp = (avg_bpm + 2) * pct_minutes * (team_games / 82), and vorp is
\* positive exactly when avg_bpm > -2 and negative exactly when avg_bpm < -2.
C25_VorpFormulaAndSign ==
    v_pc \in {"write", "done"} =>
        \A row \in v_vorp :
            ~IsNaN(row.avg_bpm) =>
                /\ row.team_games =
                     Cardinality(TeamGames(v_df, row.team_abv, row.season))
                /\ row.vorp =
                     Mul(Mul(Add(row.avg_bpm, Num(2)), row.pct_minutes),
                         Rat(row.team_games, 82))
                /\ Gt(row.vorp, Zero) <=> Gt(row.avg_bpm, Num(0 - 2))
                /\ Lt(row.vorp, Zero) <=> Lt(row.avg_bpm, Num(0 - 2))

\* an output with a row above and a row below the replacement level, for a
\* team of which two players appeared in the same game
C25_Witness ==
    /\ v_pc = "done"
    /\ \E a, b \in v_vorp :
          /\ Gt(a.vorp, Zero)
          /\ Lt(b.vorp, Zero)
          /\ a.team_abv = b.team_abv
          /\ a.season = b.season
          /\ a.team_games = 1

\* C26: the score before the team-context term is the intercept plus the
\* feature terms plus, once, the offset the coefficient set holds for the
\* player's own position label, and plus 0 when it holds none or the position
\* is missing.
C26_OwnPositionOffset ==
    v_pc \in {"aggregate", "vorp", "write", "done", "raised"} =>
        \A r \in v_df :
            r.game_bpm_raw =
                Add(Add(v_coefficients["intercept"],
                        FeatureTerm(r, v_coefficients, LeagueAverages)),
                    OffsetFor(r.position, v_coefficients))

\* the same with the offset of the labels PG, SG, PF, C and G only
C26_ListedPositionOffset ==
    v_pc \in {"aggregate", "vorp", "write", "done", "raised"} =>
        \A r \in v_df :
            r.game_bpm_raw =
                Add(Add(v_coefficients["intercept"],
                        FeatureTerm(r, v_coefficients, LeagueAverages)),
                    ListedOffsetFor(r.position, v_coefficients))

\* rows of a point guard and of a player without a position, scored with a
\* coefficient set that holds pos_PG
C26_OffsetApplied ==
    /\ v_pc = "aggregate"
    /\ "pos_PG" \in DOMAIN v_coefficients
    /\ \E r, q \in v_df : r.position = "PG" /\ q.position = Null

\* months since year 0 of the date of a game
GameMonth(game) == GameDate[game].year * 12 + GameDate[game].month

\* (sum of plus_minus / 5) * 100 / team_poss of one game of a team
PerGameNet(df, team, game, season) ==
    LET pn_rows == {x \in df : x.team_abv = team /\ x.game_id = game
                                /\ x.season = season}
    IN  Div(Mul(Div(SumOver(pn_rows, LAMBDA x : x.stats["plus_minus"]), Num(5)),
                Num(100)),
            (CHOOSE x \in pn_rows : TRUE).team_poss)

MeanNet(df, team, season, games) ==
    Div(SumOver(games, LAMBDA g : PerGameNet(df, team, g, season)),
        Num(Cardinality(games)))

ContextWeight ==
    IF "team_net_rtg" \in DOMAIN v_coefficients
    THEN v_coefficients["team_net_rtg"] ELSE Zero

\* C27 as stated: the score of a game row is the raw score plus the
\* team-context weight (0 when absent) times the mean of the per-game net
\* ratings of the team's games of the season up to that game.
C27_NetRatingUpToGame ==
    v_pc \in {"aggregate", "vorp", "write", "done", "raised"} =>
        \A r \in v_df :
            LET c27_to_date == {g \in TeamGames(v_df, r.team_abv, r.season) :
                                  GameMonth(g) <= GameMonth(r.game_id)}
            IN  /\ r.team_net_rtg =
                     MeanNet(v_df, r.team_abv, r.season, c27_to_date)
                /\ r.game_bpm =
                     Add(r.game_bpm_raw, Mul(ContextWeight, r.team_net_rtg))

\* C27, amended: the score of a game row is the raw score plus the
\* team-context weight (0 when absent) times the mean of the per-game net
\* ratings of all the team's games of the season in the frame, the games
\* played after it included; the ratings of the AdjEM solver are not read.
C27_NetRatingOverSeason ==
    v_pc \in {"aggregate", "vorp", "write", "done", "raised"} =>
        /\ RatingsIdle
        /\ \A r \in v_df :
              /\ r.team_net_rtg =
                   MeanNet(v_df, r.team_abv, r.season,
                           TeamGames(v_df, r.team_abv, r.season))
              /\ r.game_bpm =
                   Add(r.game_bpm_raw, Mul(ContextWeight, r.team_net_rtg))

\* a team with two games of one season and different net ratings in them,
\* scored with a team-context weight
C27_Witness ==
    /\ v_pc = "aggregate"
    /\ "team_net_rtg" \in DOMAIN v_coefficients
    /\ \E r, q \in v_df :
          /\ r.team_abv = q.team_abv
          /\ r.season = q.season
          /\ GameMonth(r.game_id) < GameMonth(q.game_id)
          /\ PerGameNet(v_df, r.team_abv, r.game_id, r.season)
               # PerGameNet(v_df, q.team_abv, q.game_id, q.season)
          /\ r.team_net_rtg = q.team_net_rtg
          /\ r.team_net_rtg # Zero

\* C28: two computations whose steps interleave.  No step of either call
\* changes the caller's table or the module-level parameters, and a call that
\* returns hands back the ratings calculate_ratings gives for its own input
\* when run alone; so does every round it completes.
C28_InterleavedCallsIndependent ==
    [][/\ k_input' = k_input
       /\ k_params' = k_params
       /\ \A c \in Calls :
             (k_pc[c] = "pass" /\ k_pc'[c] = "iterate")
                => k_ratings'[c] =
                      IterateRounds(InitialRatings(k_input[c], k_date[c]),
                                    k_input[c], k_date[c], k_round'[c])
       /\ \A c \in Calls :
             (k_pc[c] # "done" /\ k_pc'[c] = "done")
                => k_results'[c] = calculate_ratings(k_input[c], k_date[c])]_vars

\* both calls have returned, each having run while the other was under way
C28_Witness ==
    /\ \A c \in Calls : k_pc[c] = "done" /\ k_mixed[c]
    /\ k_input[1] # k_input[2]
    /\ k_results[1] # k_results[2]

\* the games of team t, by row number
GamesOf(df, t) ==
    {i \in 1..Len(df) : df[i].home_team = t \/ df[i].away_team = t}

\* the sum of the weights of the games of t
TotalWeight(df, pdate, t) ==
    SumOver(GamesOf(df, t), LAMBDA i : weight(df[i], pdate))

\* points allowed per 100 possessions in game i, seen from team t
DefEff(df, i, t) ==
    IF df[i].home_team = t THEN home_def_eff(df[i]) ELSE away_def_eff(df[i])

\* the weighted mean of the defensive efficiencies of t
WeightedRawDefence(df, pdate, t) ==
    Div(SumOver(GamesOf(df, t),
                LAMBDA i : Mul(DefEff(df, i, t), weight(df[i], pdate))),
        TotalWeight(df, pdate, t))

\* x == y of two floats: false when either is NaN
SameNumber(x, y) == ~IsNaN(x) /\ ~IsNaN(y) /\ x = y

\* a round gives t the defensive rating raw + 110 - previous, which is 110
\* after an odd number of rounds and the raw average after an even number
DefenceAlternates(t) ==
    /\ SameNumber(ratings'[t].adj_d,
                  Add(WeightedRawDefence(games_df, prediction_date, t),
                      Sub(Num(110), ratings[t].adj_d)))
    /\ SameNumber(ratings'[t].adj_d,
                  IF round' % 2 = 1 THEN Num(110)
                  ELSE WeightedRawDefence(games_df, prediction_date, t))

Scoreless(df, t) == \E i \in GamesOf(df, t) : possessions(df[i]) = Zero

\* C29: every round gives every team with positive total game weight the
\* defensive rating (weighted raw defensive average) + 110 - (its defensive
\* rating before the round); the rating is 110 after rounds 1, 3 and 5 and
\* the raw average after rounds 2 and 4, whatever the game results.
C29_DefenceIsLeagueAverage ==
    [][R_Round =>
          \A t \in DOMAIN ratings :
              Gt(TotalWeight(games_df, prediction_date, t), Zero)
                 => DefenceAlternates(t)]_vars

\* the same for the teams none of whose games ended 0-0
C29_DefenceWithoutScorelessGame ==
    [][R_Round =>
          \A t \in DOMAIN ratings :
              (/\ Gt(TotalWeight(games_df, prediction_date, t), Zero)
               /\ ~Scoreless(games_df, t))
                 => DefenceAlternates(t)]_vars

\* five rounds have run and a team with two games of different weights, whose
\* raw defensive average is not 110, stands at 110
C29_FiveRoundsRun ==
    /\ r_pc = "iterate"
    /\ round = 5
    /\ prediction_date # <<>>
    /\ \E t \in DOMAIN ratings :
          /\ Cardinality(GamesOf(games_df, t)) = 2
          /\ \E i, j \in GamesOf(games_df, t) :
                /\ Gt(weight(games_df[i], prediction_date), Zero)
                /\ Gt(weight(games_df[j], prediction_date),
                      weight(games_df[i], prediction_date))
          /\ ~Scoreless(games_df, t)
          /\ WeightedRawDefence(games_df, prediction_date, t) # Num(110)
          /\ ratings[t].adj_d = Num(110)

\* the output rows of a team-season
TeamOutputRows(out, team, season) ==
    {x \in out : x.team_abv = team /\ x.season = season}

\* C30: every (player_id, team, season) with a qualifying game row has exactly
\* one output row, whether or not the player has a row in nba_players; the
\* total minutes of a team-season are the minutes of its output rows.
C30_EveryQualifyingPlayerHasARow ==
    v_pc \in {"write", "done"} =>
        /\ \A r \in v_df :
              Cardinality({x \in v_vorp : /\ x.player_id = r.player_id
                                          /\ x.team_abv = r.team_abv
                                          /\ x.season = r.season}) = 1
        /\ \A t \in v_ts :
              t.team_total_minutes =
                  SumOver(TeamOutputRows(v_vorp, t.team_abv, t.season),
                          LAMBDA x : x.total_minutes)

\* the same for the players that have a row in nba_players
C30_ListedPlayersHaveARow ==
    v_pc \in {"write", "done"} =>
        /\ \A r \in {y \in v_df : y.player_name # Null} :
              Cardinality({x \in v_vorp : /\ x.player_id = r.player_id
                                          /\ x.team_abv = r.team_abv
                                          /\ x.season = r.season}) = 1
        /\ \A t \in v_ts :
              (\A y \in v_df : (y.team_abv = t.team_abv /\ y.season = t.season)
                                  => y.player_name # Null)
              => t.team_total_minutes =
                    SumOver(TeamOutputRows(v_vorp, t.team_abv, t.season),
                            LAMBDA x : x.total_minutes)

\* an output computed from the game rows of a player missing from nba_players
C30_UnlistedPlayerLoaded ==
    /\ v_pc = "done"
    /\ v_vorp # {}
    /\ \E r \in v_df : r.player_name = Null /\ Gt(r.minutes_played, Zero)

====
